---- MODULE Spec2Model ----
(***************************************************************************)
(* Verification model of the solver selection / tuning / iterative-solve   *)
(* core of code_saturne:                                                    *)
(*   - the convergence bookkeeping cs_iter_algo_info_t and the block        *)
(*     MINRES solver cs_saddle_minres (src/src/cdo);                        *)
(*   - the SpMV kernel tuning engine cs_matrix_variant_tuned               *)
(*     (src/src/alge/cs_matrix_tuning.cpp).                                 *)
(*                                                                          *)
(* Real numbers (C double) are modelled in fixed point: a finite value is   *)
(* an integer count of 1/SCALE units, every product and quotient is        *)
(* rounded toward zero, and a non-finite value (the result of a division   *)
(* by zero and everything computed from it) is the value NaN, for which    *)
(* every ordered comparison is false, as in IEEE-754.                      *)
(***************************************************************************)
EXTENDS Integers, Sequences, FiniteSets, TLC

\* ------------------------------------------------------------------------
\* Bounds of the model
\* ------------------------------------------------------------------------

\* fixed-point resolution: one unit is 1/SCALE
SCALE == 8

\* largest iteration cap n_max_algo_iter drawn
MaxCap == 3

\* ------------------------------------------------------------------------
\* Fixed-point doubles
\* ------------------------------------------------------------------------

Fin(n) == [nan |-> FALSE, v |-> n]

NaN == [nan |-> TRUE, v |-> 0]

IsFin(a) == ~a.nan

\* integer quotient rounded toward zero
Trunc(n, d) == IF n >= 0 THEN n \div d ELSE -((-n) \div d)

ISqrt(n) == CHOOSE r \in 0..n : r * r <= n /\ (r + 1) * (r + 1) > n

FAdd(a, b) == IF a.nan \/ b.nan THEN NaN ELSE Fin(a.v + b.v)

FSub(a, b) == IF a.nan \/ b.nan THEN NaN ELSE Fin(a.v - b.v)

FNeg(a) == IF a.nan THEN NaN ELSE Fin(-a.v)

FMul(a, b) == IF a.nan \/ b.nan THEN NaN ELSE Fin(Trunc(a.v * b.v, SCALE))

\* a / b; a division by zero gives inf (or NaN), which every later use in
\* the solver turns into NaN (0 * inf, inf - inf): both are the value NaN
FDiv(a, b) ==
  IF a.nan \/ b.nan \/ b.v = 0 THEN NaN ELSE Fin(Trunc(a.v * SCALE, b.v))

FAbs(a) == IF a.nan THEN NaN ELSE Fin(IF a.v < 0 THEN -a.v ELSE a.v)

FSqrt(a) == IF a.nan \/ a.v < 0 THEN NaN ELSE Fin(ISqrt(a.v * SCALE))

\* fmax(a, b) returns the other operand when one is NaN
FMax(a, b) ==
  IF a.nan THEN b ELSE IF b.nan THEN a ELSE IF a.v >= b.v THEN a ELSE b

FLt(a, b) == ~a.nan /\ ~b.nan /\ a.v < b.v

FGt(a, b) == ~a.nan /\ ~b.nan /\ a.v > b.v

One == Fin(SCALE)

Zero == Fin(0)

\* cs_math_big_r (1.e12 in the code) is only ever stored, never computed with;
\* the model keeps it within the 32-bit integer range of TLC, above every
\* residual it draws
cs_math_big_r == Fin(1000000 * SCALE)

\* DBL_MIN (about 2.2e-308) is below the fixed-point resolution: it rounds to 0
DBL_MIN == Zero

\* ------------------------------------------------------------------------
\* State
\* ------------------------------------------------------------------------

VARIABLES
  info,      \* the cs_iter_algo_info_t handed to cs_saddle_minres
  pc,        \* position of the driver: "idle", "loop", "done", "aborted"
  ndebug,    \* TRUE when the build defines NDEBUG (assert() compiled out)
  loc,       \* scalar locals of cs_saddle_minres
  x_nan,     \* TRUE when x1/x2 have been updated with a non-finite value
  zero_div,  \* which reciprocal was last taken of a zero: "none", "beta", "rho1"
  entry,     \* status and outer counter found by cs_saddle_minres on entry
  trace      \* one record per _cvg_test call of the current solve

mvars == <<info, pc, ndebug, loc, x_nan, zero_div, entry, trace>>

\* cs_sles_convergence_state_t
CS_SLES_DIVERGED == "DIVERGED"

CS_SLES_MAX_ITERATION == "MAX_ITERATION"

CS_SLES_ITERATING == "ITERATING"

CS_SLES_CONVERGED == "CONVERGED"

\* ------------------------------------------------------------------------
\* Inputs
\* ------------------------------------------------------------------------

\* iteration caps n_max_algo_iter
CapSet == 0..MaxCap

\* (atol, rtol) pairs
TolSet == { <<0, 0>>, <<SCALE, 0>>, <<0, SCALE \div 2>> }

\* divergence tolerances dtol: negative (documented as "not used"), below
\* one, one, above one
DtolSet == { -SCALE, (3 * SCALE) \div 4, SCALE, 2 * SCALE }

\* squared norms ||v||^2 of the first residual (_norm takes the root)
NormSqSet == { 0, SCALE, 16 * SCALE }

\* values of the dot product <v, z> (beta is the root of its modulus)
DotSet == { 0, SCALE }

\* values of the dot product alpha = <z, M.z>
AlphaSet == { -SCALE, 0, SCALE }

\* ------------------------------------------------------------------------
\* cs_iter_algo_info_t
\* ------------------------------------------------------------------------

\* cs_iter_algo_define: a new structure holds the stopping criteria and the
\* reset convergence indicators
cs_iter_algo_define(n_max_iter, atol, rtol, dtol) ==
  [ n_max_algo_iter |-> n_max_iter,
    atol            |-> Fin(atol),
    rtol            |-> Fin(rtol),
    dtol            |-> Fin(dtol),
    cvg             |-> CS_SLES_ITERATING,
    res             |-> cs_math_big_r,
    res0            |-> cs_math_big_r,
    tol             |-> Fin(atol),
    n_algo_iter     |-> 0,
    n_inner_iter    |-> 0,
    last_inner_iter |-> 0 ]

cs_iter_algo_reset(i) ==
  [ i EXCEPT !.cvg = CS_SLES_ITERATING,
             !.res = cs_math_big_r,
             !.n_algo_iter = 0,
             !.n_inner_iter = 0,
             !.last_inner_iter = 0 ]

\* mutant: the relative part of the tolerance is forgotten
cvg_epsilon_atol_only(i) == i.atol

\* epsilon = fmax(info->rtol*info->res0, info->atol)
cvg_epsilon(i) == FMax(FMul(i.rtol, i.res0), i.atol)

\* mutant: the cap is tested with > instead of >=
cvg_status_late_cap(i) ==
  IF FLt(i.res, cvg_epsilon(i)) THEN CS_SLES_CONVERGED
  ELSE IF i.n_algo_iter > i.n_max_algo_iter THEN CS_SLES_MAX_ITERATION
  ELSE IF FGt(i.res, FMul(i.dtol, i.res)) THEN CS_SLES_DIVERGED
  ELSE CS_SLES_ITERATING

\* the status chosen by _cvg_test once n_algo_iter has been incremented;
\* prev_res is read from info->res, which already holds the current residual
cvg_status(i) ==
  LET prev_res == i.res
      epsilon  == cvg_epsilon(i)
  IN  IF FLt(i.res, epsilon) THEN CS_SLES_CONVERGED
      ELSE IF i.n_algo_iter >= i.n_max_algo_iter THEN CS_SLES_MAX_ITERATION
      ELSE IF FGt(i.res, FMul(i.dtol, prev_res)) THEN CS_SLES_DIVERGED
      ELSE CS_SLES_ITERATING

\* mutant: the iteration counter is not incremented
cvg_increment_none(i) == i

cvg_increment(i) == [ i EXCEPT !.n_algo_iter = i.n_algo_iter + 1 ]

\* _cvg_test: the structure after the test
cvg_test(i) ==
  LET j == cvg_increment(i)
  IN  [ j EXCEPT !.cvg = cvg_status(j) ]

\* ------------------------------------------------------------------------
\* cs_saddle_minres
\* ------------------------------------------------------------------------

\* locals of a solve that is not running (workspace freed)
NoLocals ==
  [ beta |-> Zero, betaold |-> Zero, eta |-> Zero,
    c |-> Zero, cold |-> Zero, s |-> Zero, sold |-> Zero ]

\* assert(fabs(beta) > 0.) holds
beta_ok(beta) == FGt(FAbs(beta), Zero)

\* assert(fabs(rho1) > DBL_MIN) holds
rho1_ok(rho1) == FGt(FAbs(rho1), DBL_MIN)

\* an assert() stops the run only in a build without NDEBUG
assert_aborts(cond) == ~ndebug /\ ~cond

\* rho0 = c*alpha - cold*s*betaold
qr_rho0(c, cold, s, alpha, betaold) ==
  FSub(FMul(c, alpha), FMul(FMul(cold, s), betaold))

\* rho1 = sqrt(rho0*rho0 + beta*beta)
qr_rho1(rho0, beta) == FSqrt(FAdd(FMul(rho0, rho0), FMul(beta, beta)))

\* mutant: the residual is multiplied by 1 + |s|
res_update_grow(res, s) == FMul(res, FAdd(One, FAbs(s)))

\* info->res *= fabs(s)
res_update(res, s) == FMul(res, FAbs(s))

\* Prologue of cs_saddle_minres: first residual v = b - M.x, z = P^-1 v,
\* res0 = res = ||v||, beta = eta = sqrt(|<v, z>|), rotation initialised.
\* The status and the counters of info are left as the caller passed them.
MinresEnter ==
  /\ pc \in {"idle", "done"}
  /\ \E nsq \in NormSqSet, dp \in DotSet :
       /\ nsq = 0 => dp = 0
       /\ LET res0 == FSqrt(Fin(nsq))
              beta == FSqrt(FAbs(Fin(dp)))
          IN  /\ info' = [ info EXCEPT !.res0 = res0, !.res = res0 ]
              /\ loc' = [ beta |-> beta, betaold |-> One, eta |-> beta,
                          c |-> One, cold |-> One, s |-> Zero, sold |-> Zero ]
  /\ pc' = "loop"
  /\ entry' = [ cvg |-> info.cvg, n_algo_iter |-> info.n_algo_iter ]
  /\ trace' = << >>
  /\ x_nan' = FALSE
  /\ zero_div' = "none"
  /\ UNCHANGED ndebug

\* One pass of the body of while (info->cvg == CS_SLES_ITERATING), the call
\* of _cvg_test included.  alpha_in and dp_in are the values the two dot
\* products return when their operands are finite.
MinresIter ==
  /\ pc = "loop"
  /\ info.cvg = CS_SLES_ITERATING
  /\ \E alpha_in \in AlphaSet, dp_in \in DotSet :
       LET beta0   == loc.beta
           ibeta   == FDiv(One, beta0)
           alpha   == IF IsFin(ibeta) THEN Fin(alpha_in) ELSE NaN
           beta    == IF IsFin(ibeta) THEN FSqrt(FAbs(Fin(dp_in))) ELSE NaN
           betaold == beta0
           rho0    == qr_rho0(loc.c, loc.cold, loc.s, alpha, betaold)
           rho1    == qr_rho1(rho0, beta)
           irho1   == FDiv(One, rho1)
           c       == FMul(rho0, irho1)
           s       == FMul(beta, irho1)
           ceta    == FMul(c, loc.eta)
           res     == res_update(info.res, s)
           tested  == cvg_test([ info EXCEPT !.res = res ])
       IN  IF assert_aborts(beta_ok(beta0)) \/ assert_aborts(rho1_ok(rho1))
           THEN /\ pc' = "aborted"
                /\ UNCHANGED <<info, loc, x_nan, zero_div, trace>>
           ELSE /\ pc' = "loop"
                /\ loc' = [ beta |-> beta, betaold |-> betaold,
                            eta |-> FMul(FNeg(s), loc.eta),
                            c |-> c, cold |-> loc.c, s |-> s, sold |-> loc.s ]
                /\ x_nan' = (x_nan \/ ~IsFin(ceta) \/ ~IsFin(irho1)
                                   \/ ~IsFin(ibeta))
                /\ zero_div' = IF ~beta_ok(beta0) THEN "beta"
                               ELSE IF ~rho1_ok(rho1) THEN "rho1"
                               ELSE zero_div
                /\ info' = tested
                /\ trace' = Append(trace, [ prev_res |-> info.res,
                                            res      |-> tested.res,
                                            cvg      |-> tested.cvg,
                                            n        |-> tested.n_algo_iter ])
  /\ UNCHANGED <<ndebug, entry>>

\* The loop condition fails: the workspace is freed and the solver returns.
MinresExit ==
  /\ pc = "loop"
  /\ info.cvg # CS_SLES_ITERATING
  /\ pc' = "done"
  /\ loc' = NoLocals
  /\ UNCHANGED <<info, ndebug, x_nan, zero_div, entry, trace>>

\* The caller resets the structure between two solves.
Reset ==
  /\ pc \in {"idle", "done"}
  /\ info # cs_iter_algo_reset(info) \/ pc = "done"
  /\ info' = cs_iter_algo_reset(info)
  /\ pc' = "idle"
  /\ trace' = << >>
  /\ x_nan' = FALSE
  /\ zero_div' = "none"
  /\ entry' = [ cvg |-> CS_SLES_ITERATING, n_algo_iter |-> 0 ]
  /\ UNCHANGED <<ndebug, loc>>

\* ------------------------------------------------------------------------
\* Kernel tuning engine (cs_matrix_tuning.cpp)
\* ------------------------------------------------------------------------

VARIABLES
  tpc,           \* position in cs_matrix_variant_tuned
  m,             \* the caller's matrix
  have_accel,    \* TRUE when the build defines HAVE_ACCEL
  n_measure,     \* argument n_measure
  n_variants,    \* length of the list built for the matrix
  m_variant,     \* the list of candidate variants, indexed from 0
  n_r_variants,  \* number of returned variants (1, or 3 with a device)
  r_variant,     \* the returned array, indexed from 0
  spmv_cost,     \* spmv_cost[v_id][op_type], UnsetCost before it is written
  slot,          \* next (v_id, op_type) of the loops of _matrix_tune_test
  min_c,         \* min_c[k][j] of _matrix_tune_spmv_select once it has run
  n_kernel_runs, \* SpMV kernel executions since the call started
  m_t,           \* the copy of the matrix made for the last slot that was run
  m_entry,       \* the caller's matrix as it was when the call started
  released       \* adaptors that a destroy_adaptor call has released

tvars == <<tpc, m, have_accel, n_measure, n_variants, m_variant,
           n_r_variants, r_variant, spmv_cost, slot, min_c, n_kernel_runs,
           m_t, m_entry, released>>

\* largest number of variants in a list
MaxVariants == 2

\* largest n_measure drawn
MaxMeasure == 2

CS_MATRIX_SPMV_N_TYPES == 2

OpTypes == 0..(CS_MATRIX_SPMV_N_TYPES - 1)

\* elapsed wall-clock nanoseconds cs_timer_diff can report for the timed runs
NsecSet == { 0, 1, 2 }

MeasureSet == { 0, MaxMeasure }

\* a variant's kernels: registered for both operations, or for y = A.x only
KernelSets == { <<TRUE, TRUE>>, <<TRUE, FALSE>> }

nullptr == <<"nullptr">>

\* content of a name or kernel pointer that was allocated and never written
Unset == <<"unset">>

\* content of a fill type or location tag that was allocated and never written
UnsetTag == "unset"

\* content of a cost that was allocated and never written
UnsetCost == [ unset |-> TRUE ]

UnsetVariant ==
  [ name |-> [j \in OpTypes |-> Unset],
    fill_type |-> UnsetTag,
    vector_multiply |-> [j \in OpTypes |-> Unset],
    vector_multiply_xy_hd |-> [j \in OpTypes |-> UnsetTag] ]

\* the i-th entry cs_matrix_variant_build_list makes: its own name and kernel
\* per operation type, the matrix's fill type, one location tag
BuiltVariant(i, ks, hd, fill) ==
  [ name |-> [j \in OpTypes |-> <<"variant", i, j>>],
    fill_type |-> fill,
    vector_multiply |->
      [j \in OpTypes |-> IF ks[j + 1] THEN <<"kernel", i, j>> ELSE nullptr],
    vector_multiply_xy_hd |-> [j \in OpTypes |-> hd] ]

FillTypes == { "CS_MATRIX_SCALAR", "CS_MATRIX_SCALAR_SYM" }

\* the kernel the matrix has in a slot of its table before the call
OwnKernel(f, j) == <<"kernel", "matrix", f, j>>

\* the adaptor a matrix holds when an external library kernel has already
\* been applied to it
CallerAdaptor == <<"adaptor", "caller">>

\* a cs_matrix_t as far as the tuning engine reads or writes it: the tables
\* vector_multiply_h and vector_multiply_d exist in a HAVE_ACCEL build only
Matrix(fill, alloc, accel, adapted) ==
  [ fill_type |-> fill,
    alloc_mode |-> alloc,
    vector_multiply |-> [ f \in FillTypes |-> [ j \in OpTypes |-> OwnKernel(f, j) ] ],
    vector_multiply_h |->
      [ f \in FillTypes |-> [ j \in OpTypes |->
          IF accel THEN OwnKernel(f, j) ELSE nullptr ] ],
    vector_multiply_d |->
      [ f \in FillTypes |-> [ j \in OpTypes |-> nullptr ] ],
    destroy_adaptor |-> IF adapted THEN <<"destroy_adaptor">> ELSE nullptr,
    adaptor |-> IF adapted THEN CallerAdaptor ELSE nullptr ]

IdleMatrix == Matrix("CS_MATRIX_SCALAR", "HOST", FALSE, FALSE)

\* memcpy(&m_t, m, sizeof(cs_matrix_t)) and the installation of the
\* candidate kernel of v for op_type in the copy
tune_install(mat, v, op_type) ==
  LET t1 == [ mat EXCEPT !.vector_multiply[mat.fill_type][op_type] =
                            v.vector_multiply[op_type] ]
  IN  IF ~have_accel THEN t1
      ELSE IF v.vector_multiply_xy_hd[0] = "d"
      THEN [ t1 EXCEPT !.vector_multiply_d[mat.fill_type][op_type] =
                         v.vector_multiply[op_type] ]
      ELSE [ t1 EXCEPT !.vector_multiply_h[mat.fill_type][op_type] =
                         v.vector_multiply[op_type] ]

\* the adaptor a kernel sets up in the copy it is run on; the copy of one
\* slot is gone before the next is made, so one name serves for all
CopyAdaptor == <<"adaptor", "m_t">>

\* cs_matrix_vector_multiply(&m_t, x, y): a kernel of an external library
\* (lib) sets up an adaptor in the matrix it is given when it has none
tune_run(mt, lib) ==
  IF lib /\ mt.destroy_adaptor = nullptr
  THEN [ mt EXCEPT !.destroy_adaptor = <<"destroy_adaptor">>,
                   !.adaptor = CopyAdaptor ]
  ELSE mt

\* if (m_t.destroy_adaptor != nullptr) m_t.destroy_adaptor(&m_t):
\* the adaptors released by the call
tune_destroyed(mt) ==
  IF mt.destroy_adaptor # nullptr THEN { mt.adaptor } ELSE {}

\* the matrix copy once its adaptor has been destroyed
tune_after_destroy(mt) ==
  IF mt.destroy_adaptor # nullptr
  THEN [ mt EXCEPT !.destroy_adaptor = nullptr, !.adaptor = nullptr ]
  ELSE mt

\* mutant: the list is tuned as soon as it has one entry
tune_needed_one(n) == n > 0

\* if (n_variants > 1): the list is measured and a selection made
tune_needed(n) == n > 1

\* const int n_runs = (n_measure > 0) ? n_measure : 1
tune_n_runs(n) == IF n > 0 THEN n ELSE 1

\* the two "continue" of the loop of _matrix_tune_test
tune_skipped(v, op_type) ==
  \/ v.vector_multiply[op_type] = nullptr
  \/ have_accel /\ m.alloc_mode = "HOST" /\ v.vector_multiply_xy_hd[0] = "d"

\* wtu = wt_r0 / n_runs
tune_cost(nsec, n_runs) == FDiv(Fin(nsec * SCALE), Fin(n_runs * SCALE))

\* spmv_cost[...] = -1
tune_no_cost == Fin(-SCALE)

\* the slot after (v_id, op_type) in the two nested loops
NextSlot(sl) ==
  IF sl[2] + 1 < CS_MATRIX_SPMV_N_TYPES THEN <<sl[1], sl[2] + 1>>
  ELSE <<sl[1] + 1, 0>>

\* if (spmv_cost[i*CS_MATRIX_SPMV_N_TYPES + j] > 0)
select_timed(cost, i, j) == FGt(cost[i][j], Zero)

\* location class of variant i for operation j: 1 host, 2 device
select_class(mv, i, j) == IF mv[i].vector_multiply_xy_hd[j] = "d" THEN 2 ELSE 1

\* else if (spmv_cost[i] < spmv_cost[min_c[k][j]])
select_better(cost, i, cur, j) == FLt(cost[i][j], cost[cur][j])

\* first loop of _matrix_tune_spmv_select for class k and operation j, from
\* variant i on, cur being min_c[k][j] so far
RECURSIVE select_scan(_, _, _, _, _, _, _)
select_scan(mv, cost, n, k, j, i, cur) ==
  IF i >= n THEN cur
  ELSE IF select_timed(cost, i, j) /\ select_class(mv, i, j) = k
       THEN IF cur < 0 THEN select_scan(mv, cost, n, k, j, i + 1, i)
            ELSE IF select_better(cost, i, cur, j)
                 THEN select_scan(mv, cost, n, k, j, i + 1, i)
                 ELSE select_scan(mv, cost, n, k, j, i + 1, cur)
       ELSE select_scan(mv, cost, n, k, j, i + 1, cur)

\* mutant: the device optimum also wins a tie
select_device_wins_ties(cost, d, h, j) == ~FLt(cost[h][j], cost[d][j])

\* if (spmv_cost[min_c[2][j]] < spmv_cost[min_c[0][j]])
select_device_wins(cost, d, h, j) == FLt(cost[d][j], cost[h][j])

\* second loop: the combined slot from the host and device optima
select_combined(cost, h, d, j) ==
  LET c0 == IF h > -1 THEN h ELSE -1
  IN  IF d > -1
      THEN IF c0 > -1
           THEN IF select_device_wins(cost, d, c0, j) THEN d ELSE c0
           ELSE d
      ELSE c0

\* int min_c[3][2] after the two loops
select_min_c(mv, cost, n) ==
  LET host(j) == select_scan(mv, cost, n, 1, j, 0, -1)
      dev(j)  == select_scan(mv, cost, n, 2, j, 0, -1)
  IN  [ k \in 0..2 |->
        [ j \in OpTypes |->
          IF k = 1 THEN host(j)
          ELSE IF k = 2 THEN dev(j)
          ELSE select_combined(cost, host(j), dev(j), j) ] ]

\* third loop: output variant k receives, per operation, the winner's fields
select_output(o, mv, mc, k, fill) ==
  [ name |-> [ j \in OpTypes |->
               IF mc[k][j] > -1 THEN mv[mc[k][j]].name[j] ELSE o.name[j] ],
    fill_type |-> fill,
    vector_multiply |->
      [ j \in OpTypes |->
        IF mc[k][j] > -1 THEN mv[mc[k][j]].vector_multiply[j]
        ELSE o.vector_multiply[j] ],
    vector_multiply_xy_hd |->
      [ j \in OpTypes |->
        IF mc[k][j] > -1 THEN mv[mc[k][j]].vector_multiply_xy_hd[j]
        ELSE o.vector_multiply_xy_hd[j] ] ]

NoMinC == [ k \in 0..2 |-> [ j \in OpTypes |-> -1 ] ]

\* cs_matrix_variant_tuned, up to the test n_variants > 1: r_variant is
\* allocated, the variant list is built for the matrix
TuneCall ==
  /\ tpc = "idle"
  /\ \E accel \in BOOLEAN, dev \in BOOLEAN, alloc \in {"HOST", "DEVICE"},
        nm \in MeasureSet, n \in 1..MaxVariants, fill \in {"CS_MATRIX_SCALAR"},
        adapted \in BOOLEAN :
       /\ dev => accel
       /\ alloc = "DEVICE" => dev
       /\ \E ks \in [0..(n - 1) -> KernelSets],
             hd \in [0..(n - 1) -> IF accel THEN {"h", "d"} ELSE {"h"}] :
            /\ m' = Matrix(fill, alloc, accel, adapted)
            /\ m_entry' = Matrix(fill, alloc, accel, adapted)
            /\ m_variant' = [ i \in 0..(n - 1) |->
                              BuiltVariant(i, ks[i], hd[i], fill) ]
       /\ have_accel' = accel
       /\ n_measure' = nm
       /\ n_variants' = n
       /\ n_r_variants' = IF dev THEN 3 ELSE 1
       /\ r_variant' = [ k \in 0..((IF dev THEN 3 ELSE 1) - 1) |-> UnsetVariant ]
       /\ spmv_cost' = [ i \in 0..(n - 1) |-> [ j \in OpTypes |-> UnsetCost ] ]
  /\ tpc' = "built"
  /\ slot' = <<0, 0>>
  /\ min_c' = NoMinC
  /\ n_kernel_runs' = 0
  /\ m_t' = Unset
  /\ released' = {}

\* One pass of the inner loop body of _matrix_tune_test, for the variant
\* and operation type of slot; nsec is what the timer reports.
TuneTestSlot ==
  /\ tpc = "built"
  /\ tune_needed(n_variants)
  /\ slot[1] < n_variants
  /\ LET v_id    == slot[1]
         op_type == slot[2]
         v       == m_variant[v_id]
         n_runs  == tune_n_runs(n_measure)
     IN  IF tune_skipped(v, op_type)
         THEN /\ spmv_cost' = [ spmv_cost EXCEPT ![v_id][op_type] = tune_no_cost ]
              /\ UNCHANGED <<n_kernel_runs, m_t, released>>
         ELSE \E nsec \in NsecSet, lib \in BOOLEAN :
                LET installed == tune_install(m, v, op_type)
                    run       == tune_run(installed, lib)
                IN  /\ spmv_cost' = [ spmv_cost EXCEPT
                                        ![v_id][op_type] = tune_cost(nsec, n_runs) ]
                    /\ n_kernel_runs' = n_kernel_runs + 1 + n_runs
                    /\ released' = released \cup tune_destroyed(run)
                    /\ m_t' = tune_after_destroy(run)
  /\ slot' = NextSlot(slot)
  /\ UNCHANGED <<tpc, m, have_accel, n_measure, n_variants, m_variant,
                 n_r_variants, r_variant, min_c, m_entry>>

\* _matrix_tune_spmv_select, once every slot has been measured
TuneSelect ==
  /\ tpc = "built"
  /\ tune_needed(n_variants)
  /\ slot[1] >= n_variants
  /\ LET mc == select_min_c(m_variant, spmv_cost, n_variants)
     IN  /\ min_c' = mc
         /\ r_variant' = [ k \in DOMAIN r_variant |->
                           select_output(r_variant[k], m_variant, mc, k,
                                         m.fill_type) ]
  /\ tpc' = "done"
  /\ UNCHANGED <<m, have_accel, n_measure, n_variants, m_variant,
                 n_r_variants, spmv_cost, slot, n_kernel_runs,
                 m_t, m_entry, released>>

\* Single-variant case: memcpy(r_variant, m_variant, sizeof(cs_matrix_variant_t))
TuneSingle ==
  /\ tpc = "built"
  /\ ~tune_needed(n_variants)
  /\ r_variant' = [ r_variant EXCEPT ![0] = m_variant[0] ]
  /\ tpc' = "done"
  /\ UNCHANGED <<m, have_accel, n_measure, n_variants, m_variant,
                 n_r_variants, spmv_cost, slot, min_c, n_kernel_runs,
                 m_t, m_entry, released>>

TuneIdle ==
  /\ tpc = "idle"
  /\ m = IdleMatrix
  /\ m_t = Unset
  /\ m_entry = IdleMatrix
  /\ released = {}
  /\ have_accel = FALSE
  /\ n_measure = 0
  /\ n_variants = 0
  /\ m_variant = << >>
  /\ n_r_variants = 0
  /\ r_variant = << >>
  /\ spmv_cost = << >>
  /\ slot = <<0, 0>>
  /\ min_c = NoMinC
  /\ n_kernel_runs = 0

\* the caller takes the result; the engine is ready for another call
TuneReturn ==
  /\ tpc = "done"
  /\ tpc' = "idle"
  /\ m' = IdleMatrix
  /\ m_t' = Unset
  /\ m_entry' = IdleMatrix
  /\ released' = {}
  /\ have_accel' = FALSE
  /\ n_measure' = 0
  /\ n_variants' = 0
  /\ m_variant' = << >>
  /\ n_r_variants' = 0
  /\ r_variant' = << >>
  /\ spmv_cost' = << >>
  /\ slot' = <<0, 0>>
  /\ min_c' = NoMinC
  /\ n_kernel_runs' = 0

\* ------------------------------------------------------------------------
\* Solver parameters (cs_param_sles.c)
\* ------------------------------------------------------------------------

VARIABLES
  build,            \* the libraries the executable was built with
  cs_glob_n_ranks,  \* number of processes of the run
  slesp,            \* the cs_param_sles_t objects, NoParams before creation
  heap,             \* the sub-parameter blocks, by address
  sles,             \* the cs_sles_t instances defined so far, by field id
  fatal,            \* "none", or the bft_error that ended the run
  assigned,         \* a field has been assigned outside the functions below
  last              \* the last operation, its arguments and what it reported

svars == <<build, cs_glob_n_ranks, slesp, heap, sles, fatal, assigned, last>>

\* number of sub-parameter blocks that can be allocated at a time
MaxBlocks == 2

\* a null pointer to a sub-parameter block
NULL == 0

Objects == { "a", "b" }

\* the objects whose members are assigned and whose system is set up; the
\* other one is the peer of the copies
Owned == { "a" }

FieldIds == { 0 }

NoParams == [ created |-> FALSE ]

NoSles == [ defined |-> FALSE ]

FreeBlock == [ type |-> "free" ]

NoOp == [ op |-> "none" ]

\* a floating-point literal m * 10^e
Dec(mant, ex) == [ m |-> mant, e |-> ex ]

\* the builds: PETSC_HAVE_HYPRE and PETSC_HAVE_MUMPS come with PETSc's headers
Builds ==
  { b \in [ { "HAVE_HYPRE", "HAVE_PETSC", "PETSC_HAVE_HYPRE", "HAVE_MUMPS",
              "PETSC_HAVE_MUMPS" } -> BOOLEAN ] :
      /\ b["PETSC_HAVE_HYPRE"] => b["HAVE_PETSC"]
      /\ b["PETSC_HAVE_MUMPS"] => b["HAVE_PETSC"] }

\* lowest free address of the heap
Alloc(h) ==
  CHOOSE a \in 1..MaxBlocks :
    h[a] = FreeBlock /\ \A b \in 1..(a - 1) : h[b] # FreeBlock

\* BFT_FREE(ptr): the block is released (the pointer is then set to NULL)
BFT_FREE(h, ptr) == IF ptr = NULL THEN h ELSE [ h EXCEPT ![ptr] = FreeBlock ]

\* a new block of MUMPS options with its default values
cs_param_mumps_create ==
  [ type |-> "mumps", main |-> "default", advanced |-> "default" ]

\* a new block of BoomerAMG options with its default values
cs_param_amg_boomer_create ==
  [ type |-> "boomer", main |-> "default", advanced |-> "default" ]

\* the values a member group of a block can hold
MemberValues == { "default", "set" }

\* what is found in a block of the type wanted when the block blk is read
\* as one: its own content, or anything when blk is of another type
ReadAs(blk, wanted) ==
  IF blk.type = wanted THEN { blk }
  ELSE [ type : { wanted }, main : MemberValues, advanced : MemberValues ]

\* cs_param_mumps_copy(ref): a new block with the members read in ref
cs_param_mumps_copy(ref) == ReadAs(ref, "mumps")

\* cs_param_amg_boomer_copy(ref): a new block with the members read in ref
cs_param_amg_boomer_copy(ref) == ReadAs(ref, "boomer")

\* BoomerAMG options are needed when the solver or the preconditioner is an
\* AMG of type BoomerAMG
cs_param_amg_boomer_is_needed(solver, precond, amg_type) ==
  /\ precond = "CS_PARAM_PRECOND_AMG" \/ solver = "CS_PARAM_ITSOL_AMG"
  /\ amg_type \in { "CS_PARAM_AMG_HYPRE_BOOMER_V", "CS_PARAM_AMG_HYPRE_BOOMER_W" }

\* mutant: a looser default relative tolerance
create_cvg_param_loose ==
  [ n_max_iter |-> 10000, atol |-> Dec(1, -15), rtol |-> Dec(1, -4),
    dtol |-> Dec(1, 3) ]

\* slesp->cvg_param = (cs_param_sles_cvg_t) { ... } of cs_param_sles_create
create_cvg_param ==
  [ n_max_iter |-> 10000, atol |-> Dec(1, -15), rtol |-> Dec(1, -6),
    dtol |-> Dec(1, 3) ]

cs_param_sles_create(field_id, system_name) ==
  [ created        |-> TRUE,
    name           |-> system_name,
    field_id       |-> field_id,
    verbosity      |-> 0,
    setup_done     |-> FALSE,
    solver_class   |-> "CS_PARAM_SLES_CLASS_CS",
    precond        |-> "CS_PARAM_PRECOND_DIAG",
    solver         |-> "CS_PARAM_ITSOL_GCR",
    flexible       |-> FALSE,
    restart        |-> 15,
    amg_type       |-> "CS_PARAM_AMG_NONE",
    pcd_block_type |-> "CS_PARAM_PRECOND_BLOCK_NONE",
    resnorm_type   |-> "CS_PARAM_RESNORM_FILTERED_RHS",
    cvg_param      |-> create_cvg_param,
    context_param  |-> NULL ]

\* the members cs_param_sles_copy_from assigns in dst, the block excepted
copy_scalars(src, dst) ==
  [ dst EXCEPT !.setup_done     = src.setup_done,
               !.verbosity      = src.verbosity,
               !.field_id       = src.field_id,
               !.solver_class   = src.solver_class,
               !.precond        = src.precond,
               !.solver         = src.solver,
               !.amg_type       = src.amg_type,
               !.pcd_block_type = src.pcd_block_type,
               !.resnorm_type   = src.resnorm_type,
               !.cvg_param      = src.cvg_param ]

\* which copy function cs_param_sles_copy_from applies to the block of src
copy_kind(dst) ==
  IF dst.precond = "CS_PARAM_PRECOND_MUMPS" \/ dst.solver = "CS_PARAM_ITSOL_MUMPS"
  THEN "mumps"
  ELSE IF cs_param_amg_boomer_is_needed(dst.solver, dst.precond, dst.amg_type)
  THEN "boomer"
  ELSE "none"

\* a setter of the BoomerAMG or MUMPS options writes the member group grp of
\* the block at ptr, taking it for a block of the type wanted
WriteAs(h, ptr, wanted, grp) ==
  IF h[ptr].type = wanted
  THEN { [ h EXCEPT ![ptr] = IF grp = "main"
                              THEN [ h[ptr] EXCEPT !.main = "set" ]
                              ELSE [ h[ptr] EXCEPT !.advanced = "set" ] ] }
  ELSE { [ h EXCEPT ![ptr] = blk ] :
           blk \in [ type : { h[ptr].type }, main : MemberValues,
                     advanced : MemberValues ] }

\* the type a block has, "none" for a null pointer
BlockType(h, ptr) == IF ptr = NULL THEN "none" ELSE h[ptr].type

\* cs_param_sles_create(field_id, system_name)
Create(o) ==
  /\ fatal = "none"
  /\ slesp[o] = NoParams
  /\ \E f \in FieldIds :
       /\ slesp' = [ slesp EXCEPT ![o] = cs_param_sles_create(f, o) ]
       /\ last' = [ op |-> "create", obj |-> o, field_id |-> f ]
  /\ UNCHANGED <<build, cs_glob_n_ranks, heap, sles, fatal, assigned>>

\* cs_param_sles_boomeramg_reset(slesp)
boomeramg_reset(p, h) ==
  LET h1 == BFT_FREE(h, p.context_param)
      a  == Alloc(h1)
  IN  [ p |-> [ p EXCEPT !.context_param = a ],
        h |-> [ h1 EXCEPT ![a] = cs_param_amg_boomer_create ] ]

BoomeramgReset(o) ==
  /\ fatal = "none"
  /\ slesp[o] # NoParams
  /\ LET r == boomeramg_reset(slesp[o], heap)
     IN  /\ slesp' = [ slesp EXCEPT ![o] = r.p ]
         /\ heap' = r.h
  /\ last' = [ op |-> "boomeramg_reset", obj |-> o ]
  /\ UNCHANGED <<build, cs_glob_n_ranks, sles, fatal, assigned>>

\* cs_param_sles_boomeramg(slesp, ...)
Boomeramg(o) ==
  /\ fatal = "none"
  /\ slesp[o] # NoParams
  /\ LET r == boomeramg_reset(slesp[o], heap)
     IN  /\ slesp' = [ slesp EXCEPT ![o] = r.p ]
         /\ heap' \in WriteAs(r.h, r.p.context_param, "boomer", "main")
  /\ last' = [ op |-> "boomeramg", obj |-> o ]
  /\ UNCHANGED <<build, cs_glob_n_ranks, sles, fatal, assigned>>

\* cs_param_sles_boomeramg_advanced(slesp, ...)
BoomeramgAdvanced(o) ==
  /\ fatal = "none"
  /\ slesp[o] # NoParams
  /\ LET p  == slesp[o]
         a  == IF p.context_param = NULL THEN Alloc(heap) ELSE p.context_param
         h1 == IF p.context_param = NULL
               THEN [ heap EXCEPT ![a] = cs_param_amg_boomer_create ]
               ELSE heap
     IN  /\ slesp' = [ slesp EXCEPT ![o].context_param = a ]
         /\ heap' \in WriteAs(h1, a, "boomer", "advanced")
         /\ last' = [ op |-> "boomeramg_advanced", obj |-> o,
                      written |-> h1[a].type ]
  /\ UNCHANGED <<build, cs_glob_n_ranks, sles, fatal, assigned>>

\* cs_param_sles_mumps(slesp, is_single, facto_type)
param_sles_mumps(p, h) ==
  LET h1 == BFT_FREE(h, p.context_param)
      a  == Alloc(h1)
  IN  [ p |-> [ p EXCEPT !.context_param = a ],
        h |-> [ h1 EXCEPT ![a] = [ cs_param_mumps_create EXCEPT !.main = "set" ] ] ]

Mumps(o) ==
  /\ fatal = "none"
  /\ slesp[o] # NoParams
  /\ LET r == param_sles_mumps(slesp[o], heap)
     IN  /\ slesp' = [ slesp EXCEPT ![o] = r.p ]
         /\ heap' = r.h
  /\ last' = [ op |-> "mumps", obj |-> o ]
  /\ UNCHANGED <<build, cs_glob_n_ranks, sles, fatal, assigned>>

\* cs_param_sles_mumps_advanced(slesp, ...)
MumpsAdvanced(o) ==
  /\ fatal = "none"
  /\ slesp[o] # NoParams
  /\ LET p  == slesp[o]
         a  == IF p.context_param = NULL THEN Alloc(heap) ELSE p.context_param
         h1 == IF p.context_param = NULL
               THEN [ heap EXCEPT ![a] = cs_param_mumps_create ]
               ELSE heap
     IN  /\ slesp' = [ slesp EXCEPT ![o].context_param = a ]
         /\ heap' \in WriteAs(h1, a, "mumps", "advanced")
         /\ last' = [ op |-> "mumps_advanced", obj |-> o,
                      written |-> h1[a].type ]
  /\ UNCHANGED <<build, cs_glob_n_ranks, sles, fatal, assigned>>

\* cs_param_sles_copy_from(src, dst), src and dst being two objects
CopyFrom(s, d) ==
  /\ fatal = "none"
  /\ s # d
  /\ slesp[s] # NoParams
  /\ slesp[d] # NoParams
  /\ LET src  == slesp[s]
         dst1 == copy_scalars(src, slesp[d])
         h1   == BFT_FREE(heap, dst1.context_param)
         kind == copy_kind(dst1)
     IN  IF kind = "none"
         THEN /\ slesp' = [ slesp EXCEPT ![d] = [ dst1 EXCEPT !.context_param = NULL ] ]
              /\ heap' = h1
              /\ UNCHANGED fatal
         ELSE IF src.context_param = NULL
         THEN \* the copy function is handed a null pointer: it returns one,
              \* or the run ends on the read of its members
              /\ slesp' = [ slesp EXCEPT ![d] = [ dst1 EXCEPT !.context_param = NULL ] ]
              /\ heap' = h1
              /\ fatal' \in { "none", "copy_from: null sub-parameter block read" }
         ELSE \E blk \in ( IF kind = "mumps"
                           THEN cs_param_mumps_copy(heap[src.context_param])
                           ELSE cs_param_amg_boomer_copy(heap[src.context_param]) ) :
                LET a == Alloc(h1)
                IN  /\ slesp' = [ slesp EXCEPT ![d] = [ dst1 EXCEPT !.context_param = a ] ]
                    /\ heap' = [ h1 EXCEPT ![a] = blk ]
                    /\ UNCHANGED fatal
  /\ last' = [ op |-> "copy_from", obj |-> d, src |-> s, pre |-> slesp[d] ]
  /\ UNCHANGED <<build, cs_glob_n_ranks, sles, assigned>>

\* the settings the owner of a parameter object assigns to its members
\* between its creation and the set-up of the system
Settings ==
  LET S(class, solver, precond, amg, blk, restart, flex, verb, cvg) ==
        [ solver_class |-> class, solver |-> solver, precond |-> precond,
          amg_type |-> amg, pcd_block_type |-> blk, restart |-> restart,
          flexible |-> flex, verbosity |-> verb, cvg_param |-> cvg ]
      tight == [ n_max_iter |-> 50, atol |-> Dec(1, -12), rtol |-> Dec(1, -8),
                 dtol |-> Dec(1, 4) ]
  IN  { S("CS_PARAM_SLES_CLASS_PETSC", "CS_PARAM_ITSOL_GMRES",
          "CS_PARAM_PRECOND_SSOR", "CS_PARAM_AMG_NONE",
          "CS_PARAM_PRECOND_BLOCK_NONE", 1, FALSE, 0, create_cvg_param),
        S("CS_PARAM_SLES_CLASS_PETSC", "CS_PARAM_ITSOL_FGMRES",
          "CS_PARAM_PRECOND_SSOR", "CS_PARAM_AMG_NONE",
          "CS_PARAM_PRECOND_BLOCK_NONE", 2, TRUE, 2, tight),
        S("CS_PARAM_SLES_CLASS_PETSC", "CS_PARAM_ITSOL_CG",
          "CS_PARAM_PRECOND_ICC0", "CS_PARAM_AMG_NONE",
          "CS_PARAM_PRECOND_BLOCK_NONE", 15, FALSE, 0, create_cvg_param),
        S("CS_PARAM_SLES_CLASS_PETSC", "CS_PARAM_ITSOL_CG",
          "CS_PARAM_PRECOND_AMG", "CS_PARAM_AMG_HYPRE_BOOMER_V",
          "CS_PARAM_PRECOND_BLOCK_NONE", 15, FALSE, 0, create_cvg_param),
        S("CS_PARAM_SLES_CLASS_PETSC", "CS_PARAM_ITSOL_GCR",
          "CS_PARAM_PRECOND_AMG", "CS_PARAM_AMG_HYPRE_BOOMER_W",
          "CS_PARAM_PRECOND_BLOCK_DIAG", 15, FALSE, 0, create_cvg_param),
        S("CS_PARAM_SLES_CLASS_CS", "CS_PARAM_ITSOL_MUMPS",
          "CS_PARAM_PRECOND_NONE", "CS_PARAM_AMG_NONE",
          "CS_PARAM_PRECOND_BLOCK_NONE", 15, FALSE, 0, create_cvg_param),
        S("CS_PARAM_SLES_CLASS_MUMPS", "CS_PARAM_ITSOL_GCR",
          "CS_PARAM_PRECOND_DIAG", "CS_PARAM_AMG_NONE",
          "CS_PARAM_PRECOND_BLOCK_NONE", 15, FALSE, 0, create_cvg_param),
        S("CS_PARAM_SLES_CLASS_PETSC", "CS_PARAM_ITSOL_MUMPS",
          "CS_PARAM_PRECOND_SSOR", "CS_PARAM_AMG_NONE",
          "CS_PARAM_PRECOND_BLOCK_NONE", 15, FALSE, 0, create_cvg_param),
        S("CS_PARAM_SLES_CLASS_PETSC", "CS_PARAM_ITSOL_MUMPS",
          "CS_PARAM_PRECOND_AMG", "CS_PARAM_AMG_HYPRE_BOOMER_V",
          "CS_PARAM_PRECOND_BLOCK_NONE", 15, FALSE, 0, create_cvg_param),
        S("CS_PARAM_SLES_CLASS_HYPRE", "CS_PARAM_ITSOL_GCR",
          "CS_PARAM_PRECOND_AMG", "CS_PARAM_AMG_HYPRE_BOOMER_V",
          "CS_PARAM_PRECOND_BLOCK_NONE", 15, FALSE, 0, create_cvg_param),
        S("CS_PARAM_SLES_N_CLASSES", "CS_PARAM_ITSOL_GCR",
          "CS_PARAM_PRECOND_DIAG", "CS_PARAM_AMG_NONE",
          "CS_PARAM_PRECOND_BLOCK_NONE", 15, FALSE, 0, create_cvg_param) }

\* the object p once the settings st are assigned to its members
assign_settings(p, st) ==
  [ p EXCEPT !.solver_class   = st.solver_class,
             !.solver         = st.solver,
             !.precond        = st.precond,
             !.amg_type       = st.amg_type,
             !.pcd_block_type = st.pcd_block_type,
             !.restart        = st.restart,
             !.flexible       = st.flexible,
             !.verbosity      = st.verbosity,
             !.cvg_param      = st.cvg_param ]

\* the owner of the object assigns its members, once it is created
Assign(o) ==
  /\ fatal = "none"
  /\ slesp[o] # NoParams
  /\ slesp[o] = cs_param_sles_create(slesp[o].field_id, o)
  /\ \E st \in Settings :
       slesp' = [ slesp EXCEPT ![o] = assign_settings(@, st) ]
  /\ assigned' = TRUE
  /\ last' = [ op |-> "assign", obj |-> o ]
  /\ UNCHANGED <<build, cs_glob_n_ranks, heap, sles, fatal>>

\* mutant: HYPRE is never reached through PETSc
hypre_from_petsc_never(bld) == FALSE

\* cs_param_sles_hypre_from_petsc()
cs_param_sles_hypre_from_petsc(bld) ==
  bld["HAVE_PETSC"] /\ bld["PETSC_HAVE_HYPRE"]

\* cs_param_sles_check_class(wanted_class): the class returned and whether a
\* warning was written
cs_param_sles_check_class(wanted_class, bld) ==
  LET R(c, w) == [ ret |-> c, warned |-> w ]
  IN  CASE wanted_class = "CS_PARAM_SLES_CLASS_CS" ->
             R("CS_PARAM_SLES_CLASS_CS", FALSE)
        [] wanted_class = "CS_PARAM_SLES_CLASS_HYPRE" ->
             IF bld["HAVE_HYPRE"] THEN R("CS_PARAM_SLES_CLASS_HYPRE", FALSE)
             ELSE IF bld["HAVE_PETSC"]
             THEN IF cs_param_sles_hypre_from_petsc(bld)
                  THEN R("CS_PARAM_SLES_CLASS_HYPRE", FALSE)
                  ELSE R("CS_PARAM_SLES_CLASS_PETSC", TRUE)
             ELSE R("CS_PARAM_SLES_N_CLASSES", FALSE)
        [] wanted_class = "CS_PARAM_SLES_CLASS_PETSC" ->
             IF bld["HAVE_PETSC"] THEN R("CS_PARAM_SLES_CLASS_PETSC", FALSE)
             ELSE R("CS_PARAM_SLES_N_CLASSES", FALSE)
        [] wanted_class = "CS_PARAM_SLES_CLASS_MUMPS" ->
             IF bld["HAVE_MUMPS"] THEN R("CS_PARAM_SLES_CLASS_MUMPS", FALSE)
             ELSE IF bld["HAVE_PETSC"] /\ bld["PETSC_HAVE_MUMPS"]
             THEN R("CS_PARAM_SLES_CLASS_PETSC", TRUE)
             ELSE R("CS_PARAM_SLES_N_CLASSES", FALSE)
        [] OTHER -> R("CS_PARAM_SLES_N_CLASSES", FALSE)

Classes ==
  { "CS_PARAM_SLES_CLASS_CS", "CS_PARAM_SLES_CLASS_HYPRE",
    "CS_PARAM_SLES_CLASS_PETSC", "CS_PARAM_SLES_CLASS_MUMPS",
    "CS_PARAM_SLES_N_CLASSES" }

\* a call of cs_param_sles_check_class by the owner of a parameter object
CheckClass ==
  /\ fatal = "none"
  /\ \E wanted \in Classes :
       LET r == cs_param_sles_check_class(wanted, build)
       IN  last' = [ op |-> "check_class", wanted |-> wanted, ret |-> r.ret,
                     warned |-> r.warned ]
  /\ UNCHANGED <<build, cs_glob_n_ranks, slesp, heap, sles, fatal, assigned>>

\* mutant: a restart length of one is accepted
restart_too_small_one(restart) == restart < 1

\* if (slesp->restart < 2)
restart_too_small(restart) == restart < 2

\* the solvers whose restart length _check_settings checks
restart_checked(solver) ==
  solver \in { "CS_PARAM_ITSOL_GMRES", "CS_PARAM_ITSOL_FGMRES",
               "CS_PARAM_ITSOL_GCR" }

\* _check_settings(slesp): the object as it leaves it, the bft_error raised
\* ("none" when it returns) and whether a warning was written
check_settings(p, bld) ==
  LET chk == cs_param_sles_check_class("CS_PARAM_SLES_CLASS_MUMPS", bld)
      R(q, f, w) == [ p |-> q, fatal |-> f, warned |-> w ]
      restart(q, w) ==
        IF restart_checked(q.solver) /\ restart_too_small(q.restart)
        THEN R(q, "_check_settings: the restart interval is not big enough", w)
        ELSE R(q, "none", w)
  IN  IF p.solver = "CS_PARAM_ITSOL_MUMPS"
      THEN IF chk.ret = "CS_PARAM_SLES_N_CLASSES"
           THEN R(p, "_check_settings: MUMPS is not available", chk.warned)
           ELSE restart([ p EXCEPT !.solver_class = chk.ret ], chk.warned)
      ELSE IF p.solver_class = "CS_PARAM_SLES_CLASS_MUMPS"
           THEN R(p, "_check_settings: MUMPS class is not consistent", FALSE)
           ELSE restart(p, FALSE)

\* the convergence settings of an instance no function has set yet
NoCvg == [ applied |-> FALSE ]

\* a cs_sles_t instance as one of the families has defined it
SlesDefine(family, solver, pctype, hook, o) ==
  [ defined |-> TRUE, family |-> family, solver |-> solver, pc |-> pctype,
    hook |-> hook, context |-> o, verbosity |-> 0, cvg |-> NoCvg ]

\* what a family's set-up function reports: the object, the heap and the
\* instance as it leaves them, the bft_error raised, the warning written
SetResult(p, h, s, f, w) ==
  [ p |-> p, h |-> h, s |-> s, fatal |-> f, warned |-> w ]

\* _set_saturne_sles(use_field_id, slesp), o being the object slesp points
\* to. Every field id of the model is > -1, so that an instance found is
\* left as it is and an instance added has no iterative solver yet. For AMG
\* as a solver, which no setting of the model asks for, the steps that
\* follow the definition of the multigrid are left out.
set_saturne_sles(p, h, s, bld, o) ==
  IF s # NoSles /\ p.field_id > -1
  THEN SetResult(p, h, s, "none", FALSE)
  ELSE
    LET flex_solver ==
          CASE p.solver = "CS_PARAM_ITSOL_CG" /\ p.flexible -> "CS_PARAM_ITSOL_FCG"
            [] p.solver = "CS_PARAM_ITSOL_GMRES" /\ p.flexible -> "CS_PARAM_ITSOL_GCR"
            [] OTHER -> p.solver
        itsol ==
          CASE p.solver = "CS_PARAM_ITSOL_AMG" -> "multigrid"
            [] p.solver = "CS_PARAM_ITSOL_BICG" -> "CS_SLES_BICGSTAB"
            [] p.solver = "CS_PARAM_ITSOL_BICGSTAB2" -> "CS_SLES_BICGSTAB2"
            [] p.solver = "CS_PARAM_ITSOL_CG" ->
                 IF p.flexible THEN "CS_SLES_IPCG" ELSE "CS_SLES_PCG"
            [] p.solver = "CS_PARAM_ITSOL_CR3" -> "CS_SLES_PCR3"
            [] p.solver = "CS_PARAM_ITSOL_FCG" -> "CS_SLES_FCG"
            [] p.solver = "CS_PARAM_ITSOL_GKB_CG" -> "CS_SLES_IPCG"
            [] p.solver = "CS_PARAM_ITSOL_GAUSS_SEIDEL" -> "CS_SLES_P_GAUSS_SEIDEL"
            [] p.solver \in { "CS_PARAM_ITSOL_FGMRES", "CS_PARAM_ITSOL_GKB_GMRES",
                              "CS_PARAM_ITSOL_GCR" } ->
                 "CS_SLES_GCR"
            [] p.solver = "CS_PARAM_ITSOL_GMRES" ->
                 IF p.flexible THEN "CS_SLES_GCR" ELSE "CS_SLES_GMRES"
            [] p.solver = "CS_PARAM_ITSOL_JACOBI" -> "CS_SLES_JACOBI"
            [] p.solver = "CS_PARAM_ITSOL_SYM_GAUSS_SEIDEL" ->
                 "CS_SLES_P_SYM_GAUSS_SEIDEL"
            [] p.solver = "CS_PARAM_ITSOL_USER_DEFINED" -> "CS_SLES_USER_DEFINED"
            [] OTHER -> "none"
        warned == \/ p.solver = "CS_PARAM_ITSOL_FGMRES"
                  \/ p.flexible /\ itsol \in { "CS_SLES_PCG", "CS_SLES_BICGSTAB",
                                                "CS_SLES_BICGSTAB2", "CS_SLES_GMRES",
                                                "CS_SLES_PCR3" }
        p1 == [ p EXCEPT !.solver = flex_solver ]
        ItDefine(pctype) ==
          [ SlesDefine("saturne", itsol, pctype, "none", o)
              EXCEPT !.cvg = [ n_max_iter |-> p.cvg_param.n_max_iter ] ]
    IN  IF itsol = "none"
        THEN SetResult(p, h, SlesDefine("saturne", "none", "none", "none", o),
                       "_set_saturne_sles: invalid iterative solver", FALSE)
        ELSE IF itsol = "multigrid"
        THEN SetResult(p, h, SlesDefine("saturne", itsol, "none", "none", o),
                       IF p.amg_type \in { "CS_PARAM_AMG_HOUSE_V",
                                           "CS_PARAM_AMG_HOUSE_K" }
                       THEN "none"
                       ELSE "_set_saturne_sles: invalid AMG type for a solver",
                       FALSE)
        ELSE
          CASE p1.precond = "CS_PARAM_PRECOND_AMG" ->
                 IF p1.amg_type \in { "CS_PARAM_AMG_HOUSE_V", "CS_PARAM_AMG_HOUSE_K" }
                 THEN SetResult(p1, h, ItDefine("multigrid"),
                                "none", warned)
                 ELSE SetResult(p1, h, ItDefine("none"),
                                "_set_saturne_sles: invalid AMG type", warned)
            [] p1.precond = "CS_PARAM_PRECOND_MUMPS" ->
                 IF bld["HAVE_MUMPS"]
                 THEN LET r == IF p1.context_param = NULL
                               THEN param_sles_mumps(p1, h)
                               ELSE [ p |-> p1, h |-> h ]
                      IN  SetResult(r.p, r.h,
                                    ItDefine("mumps"),
                                    "none", warned)
                 ELSE SetResult(p1, h, ItDefine("none"),
                                "_set_saturne_sles: MUMPS not available", warned)
            [] OTHER ->
                 SetResult(p1, h, ItDefine("polynomial"),
                           "none", warned)

\* _set_mumps_sles(use_field_id, slesp)
set_mumps_sles(p, h, s, bld, o) ==
  LET r == IF p.context_param = NULL THEN param_sles_mumps(p, h)
           ELSE [ p |-> p, h |-> h ]
  IN  IF bld["HAVE_MUMPS"]
      THEN SetResult(r.p, r.h, SlesDefine("mumps", "mumps", "none", "none", o),
                     "none", FALSE)
      ELSE SetResult(r.p, r.h, s, "_set_mumps_sles: MUMPS is not supported", FALSE)

\* _set_petsc_hypre_sles(use_field_id, slesp)
set_petsc_hypre_sles(p, h, s, bld, o) ==
  LET Petsc(hook) == SlesDefine("petsc", "unset", "unset", hook, o)
      boomer == p.amg_type \in { "CS_PARAM_AMG_HYPRE_BOOMER_V",
                                 "CS_PARAM_AMG_HYPRE_BOOMER_W" }
      gamg   == p.amg_type \in { "CS_PARAM_AMG_PETSC_GAMG_V",
                                 "CS_PARAM_AMG_PETSC_GAMG_W" }
  IN  IF ~bld["HAVE_PETSC"]
      THEN SetResult(p, h, s, "_set_petsc_hypre_sles: PETSc is not linked", FALSE)
      ELSE IF p.pcd_block_type # "CS_PARAM_PRECOND_BLOCK_NONE"
      THEN IF p.precond = "CS_PARAM_PRECOND_AMG"
           THEN IF gamg
                THEN SetResult(p, h, Petsc("_petsc_amg_block_gamg_hook"), "none", FALSE)
                ELSE IF boomer
                THEN IF cs_param_sles_hypre_from_petsc(bld)
                     THEN SetResult(p, h, Petsc("_petsc_amg_block_boomer_hook"),
                                    "none", FALSE)
                     ELSE SetResult(p, h, Petsc("_petsc_amg_block_gamg_hook"),
                                    "none", TRUE)
                ELSE SetResult(p, h, s,
                       "_set_petsc_hypre_sles: no AMG solver for a block-AMG", FALSE)
           ELSE SetResult(p, h, Petsc("_petsc_block_hook"), "none", FALSE)
      ELSE LET r == IF /\ bld["PETSC_HAVE_HYPRE"]
                       /\ p.precond = "CS_PARAM_PRECOND_AMG"
                       /\ boomer
                       /\ p.context_param = NULL
                    THEN boomeramg_reset(p, h)
                    ELSE [ p |-> p, h |-> h ]
           IN  SetResult(r.p, r.h, Petsc("_petsc_setup_hook"), "none", FALSE)

\* _set_hypre_sles(use_field_id, slesp), in a build with HAVE_HYPRE
set_hypre_sles(p, h, s, bld, o) ==
  LET hs == CASE p.solver = "CS_PARAM_ITSOL_AMG" -> "CS_SLES_HYPRE_BOOMERAMG"
              [] p.solver \in { "CS_PARAM_ITSOL_BICG", "CS_PARAM_ITSOL_BICGSTAB2" } ->
                   "CS_SLES_HYPRE_BICGSTAB"
              [] p.solver \in { "CS_PARAM_ITSOL_CG", "CS_PARAM_ITSOL_FCG" } ->
                   "CS_SLES_HYPRE_PCG"
              [] p.solver \in { "CS_PARAM_ITSOL_FGMRES", "CS_PARAM_ITSOL_GCR" } ->
                   "CS_SLES_HYPRE_FLEXGMRES"
              [] p.solver = "CS_PARAM_ITSOL_GMRES" -> "CS_SLES_HYPRE_GMRES"
              [] OTHER -> "none"
      r  == IF hs # "CS_SLES_HYPRE_PCG" /\ p.context_param = NULL
            THEN boomeramg_reset(p, h)
            ELSE [ p |-> p, h |-> h ]
      Generic(pctype) ==
        SetResult(p, h, SlesDefine("hypre", hs, pctype, "_hypre_generic_pc_hook", o),
                  "none", FALSE)
  IN  IF hs = "none"
      THEN SetResult(p, h, s, "_set_hypre_sles: incompatible solver", FALSE)
      ELSE IF hs = "CS_SLES_HYPRE_BOOMERAMG"
      THEN SetResult(r.p, r.h,
                     SlesDefine("hypre", hs, "CS_SLES_HYPRE_NONE",
                                "_hypre_boomeramg_hook", o),
                     "none", FALSE)
      ELSE CASE p.precond = "CS_PARAM_PRECOND_AMG" ->
                  SetResult(r.p, r.h,
                            SlesDefine("hypre", hs, "CS_SLES_HYPRE_BOOMERAMG",
                                       "_hypre_boomeramg_hook", o),
                            "none", FALSE)
             [] p.precond \in { "CS_PARAM_PRECOND_DIAG", "CS_PARAM_PRECOND_NONE" } ->
                  Generic("CS_SLES_HYPRE_NONE")
             [] p.precond = "CS_PARAM_PRECOND_BJACOB_ILU0" ->
                  Generic("CS_SLES_HYPRE_EUCLID")
             [] p.precond = "CS_PARAM_PRECOND_ILU0" ->
                  Generic("CS_SLES_HYPRE_ILU")
             [] OTHER ->
                  SetResult(p, h, s,
                            "_set_hypre_sles: invalid solver/preconditioner", FALSE)

\* mutant: the HYPRE class is always handed to the PETSc set-up
set_dispatch_petsc(class, bld) ==
  CASE class = "CS_PARAM_SLES_CLASS_CS" -> "_set_saturne_sles"
    [] class = "CS_PARAM_SLES_CLASS_MUMPS" -> "_set_mumps_sles"
    [] class = "CS_PARAM_SLES_CLASS_HYPRE" -> "_set_petsc_hypre_sles"
    [] class = "CS_PARAM_SLES_CLASS_PETSC" -> "_set_petsc_hypre_sles"
    [] OTHER -> "none"

\* switch (slesp->solver_class) of cs_param_sles_set: the function called
set_dispatch(class, bld) ==
  CASE class = "CS_PARAM_SLES_CLASS_CS" -> "_set_saturne_sles"
    [] class = "CS_PARAM_SLES_CLASS_MUMPS" -> "_set_mumps_sles"
    [] class = "CS_PARAM_SLES_CLASS_HYPRE" ->
         IF bld["HAVE_HYPRE"] THEN "_set_hypre_sles" ELSE "_set_petsc_hypre_sles"
    [] class = "CS_PARAM_SLES_CLASS_PETSC" -> "_set_petsc_hypre_sles"
    [] OTHER -> "none"

\* cs_param_sles_set(use_field_id, slesp): what the families report, whether
\* a warning was written and whether the family wrote one, the function the
\* switch called and the value returned
cs_param_sles_set(p, h, s, bld, o) ==
  LET chk  == check_settings(p, bld)
      to   == set_dispatch(chk.p.solver_class, bld)
      r    == CASE to = "_set_saturne_sles" -> set_saturne_sles(chk.p, h, s, bld, o)
                [] to = "_set_mumps_sles" -> set_mumps_sles(chk.p, h, s, bld, o)
                [] to = "_set_hypre_sles" -> set_hypre_sles(chk.p, h, s, bld, o)
                [] to = "_set_petsc_hypre_sles" ->
                     set_petsc_hypre_sles(chk.p, h, s, bld, o)
                [] OTHER -> SetResult(chk.p, h, s, "none", FALSE)
      verb == IF r.p.verbosity > 1 /\ r.s # NoSles
              THEN [ r.s EXCEPT !.verbosity = r.p.verbosity ]
              ELSE IF r.p.verbosity > 1
              THEN [ SlesDefine("none", "none", "none", "none", o)
                       EXCEPT !.verbosity = r.p.verbosity ]
              ELSE r.s
  IN  IF chk.fatal # "none"
      THEN [ p |-> chk.p, h |-> h, s |-> s, fatal |-> chk.fatal,
             warned |-> chk.warned, backend_warned |-> FALSE,
             dispatch |-> "none", ret |-> 0 ]
      ELSE IF to = "none"
      THEN [ p |-> chk.p, h |-> h, s |-> s, fatal |-> "none",
             warned |-> chk.warned, backend_warned |-> FALSE,
             dispatch |-> "none", ret |-> -1 ]
      ELSE IF r.fatal # "none"
      THEN [ p |-> r.p, h |-> r.h, s |-> r.s, fatal |-> r.fatal,
             warned |-> chk.warned \/ r.warned, backend_warned |-> r.warned,
             dispatch |-> to, ret |-> 0 ]
      ELSE [ p |-> r.p, h |-> r.h, s |-> verb, fatal |-> "none",
             warned |-> chk.warned \/ r.warned, backend_warned |-> r.warned,
             dispatch |-> to, ret |-> 0 ]

Set(o) ==
  /\ fatal = "none"
  /\ slesp[o] # NoParams
  /\ LET f == slesp[o].field_id
         r == cs_param_sles_set(slesp[o], heap, sles[f], build, o)
     IN  /\ slesp' = [ slesp EXCEPT ![o] = r.p ]
         /\ heap' = r.h
         /\ sles' = [ sles EXCEPT ![f] = r.s ]
         /\ fatal' = r.fatal
         /\ last' = [ op |-> "set", obj |-> o, pre |-> slesp[o],
                      pre_sles |-> sles[f], dispatch |-> r.dispatch,
                      ret |-> r.ret, warned |-> r.warned,
                      backend_warned |-> r.backend_warned ]
  /\ UNCHANGED <<build, cs_glob_n_ranks, assigned>>

\* _petsc_set_krylov_solver(slesp, ksp): the object as it leaves it, the KSP
\* type, the PC type when the solver sets one, the bft_error raised, the
\* restart and tolerances set in the KSP
petsc_set_krylov_solver(p, h, bld) ==
  LET p1 == [ p EXCEPT !.resnorm_type = "CS_PARAM_RESNORM_NORM2_RHS" ]
      tol == [ rtol |-> p.cvg_param.rtol, atol |-> p.cvg_param.atol,
               dtol |-> p.cvg_param.dtol, n_max_iter |-> p.cvg_param.n_max_iter ]
      set == IF p.solver \in { "CS_PARAM_ITSOL_GMRES", "CS_PARAM_ITSOL_FGMRES",
                               "CS_PARAM_ITSOL_GCR" }
             THEN [ rtol |-> tol.rtol, atol |-> tol.atol, dtol |-> tol.dtol,
                    n_max_iter |-> tol.n_max_iter, restart |-> p.restart ]
             ELSE tol
      R(k, pct, f) == [ p |-> p1, ksp |-> k, pc |-> pct, fatal |-> f,
                        cvg |-> IF f = "none" THEN set ELSE NoCvg ]
  IN  CASE p.solver = "CS_PARAM_ITSOL_NONE" -> R("KSPPREONLY", "unset", "none")
        [] p.solver = "CS_PARAM_ITSOL_BICG" -> R("KSPIBCGS", "unset", "none")
        [] p.solver = "CS_PARAM_ITSOL_BICGSTAB2" -> R("KSPBCGSL", "unset", "none")
        [] p.solver = "CS_PARAM_ITSOL_CG" ->
             IF p.precond = "CS_PARAM_PRECOND_AMG" THEN R("KSPFCG", "unset", "none")
             ELSE R("KSPCG", "unset", "none")
        [] p.solver = "CS_PARAM_ITSOL_FCG" -> R("KSPFCG", "unset", "none")
        [] p.solver = "CS_PARAM_ITSOL_FGMRES" -> R("KSPFGMRES", "unset", "none")
        [] p.solver = "CS_PARAM_ITSOL_GCR" -> R("KSPGCR", "unset", "none")
        [] p.solver = "CS_PARAM_ITSOL_GMRES" -> R("KSPLGMRES", "unset", "none")
        [] p.solver = "CS_PARAM_ITSOL_MINRES" -> R("KSPMINRES", "unset", "none")
        [] p.solver = "CS_PARAM_ITSOL_MUMPS" ->
             IF ~bld["PETSC_HAVE_MUMPS"]
             THEN R("unset", "unset",
                    "_petsc_set_krylov_solver: MUMPS not interfaced with PETSc")
             ELSE IF p.context_param = NULL
             THEN R("KSPPREONLY", "unset",
                    "_petsc_set_krylov_solver: null MUMPS options")
             ELSE R("KSPPREONLY", "PCLU/MATSOLVERMUMPS", "none")
        [] OTHER -> R("unset", "unset",
                      "_petsc_set_krylov_solver: solver not interfaced with PETSc")

\* mutant: SSOR is kept as it is in a parallel run
pc_needs_block_serial_only(n_ranks) == FALSE

\* if (cs_glob_n_ranks > 1): switch to a block version
pc_needs_block(n_ranks) == n_ranks > 1

\* mutant: BoomerAMG is always taken from PETSc
pc_boomer_available_always(bld) == TRUE

\* if (cs_param_sles_hypre_from_petsc()) of the BoomerAMG cases
pc_boomer_available(bld) == cs_param_sles_hypre_from_petsc(bld)

\* _petsc_set_pc_type(slesp, ksp), pc0 being the PC type on entry: the
\* object as it leaves it, the PC type, whether a warning was logged, the
\* bft_error raised
petsc_set_pc_type(p, pc0, bld, n_ranks) ==
  LET R(q, pct, w, f) == [ p |-> q, pc |-> pct, warned |-> w, fatal |-> f ]
  IN  IF p.solver = "CS_PARAM_ITSOL_MUMPS" THEN R(p, pc0, FALSE, "none")
      ELSE
        CASE p.precond = "CS_PARAM_PRECOND_NONE" -> R(p, "PCNONE", FALSE, "none")
          [] p.precond = "CS_PARAM_PRECOND_DIAG" -> R(p, "PCJACOBI", FALSE, "none")
          [] p.precond = "CS_PARAM_PRECOND_BJACOB_ILU0" ->
               IF p.solver_class = "CS_PARAM_SLES_CLASS_HYPRE" /\ bld["PETSC_HAVE_HYPRE"]
               THEN R(p, "PCHYPRE/euclid", FALSE, "none")
               ELSE R(p, "bjacobi/ilu", FALSE, "none")
          [] p.precond = "CS_PARAM_PRECOND_BJACOB_SGS" ->
               R(p, "bjacobi/sor", FALSE, "none")
          [] p.precond = "CS_PARAM_PRECOND_SSOR" ->
               IF pc_needs_block(n_ranks)
               THEN R([ p EXCEPT !.precond = "CS_PARAM_PRECOND_BJACOB_SGS" ],
                      "bjacobi/sor", TRUE, "none")
               ELSE R(p, "PCSOR", FALSE, "none")
          [] p.precond = "CS_PARAM_PRECOND_ICC0" ->
               IF pc_needs_block(n_ranks)
               THEN R(p, "bjacobi/icc", TRUE, "none")
               ELSE R(p, "PCICC", FALSE, "none")
          [] p.precond = "CS_PARAM_PRECOND_ILU0" ->
               LET blk == IF n_ranks > 1
                          THEN [ p EXCEPT !.precond = "CS_PARAM_PRECOND_BJACOB_ILU0" ]
                          ELSE p
               IN  IF p.solver_class = "CS_PARAM_SLES_CLASS_HYPRE"
                   THEN IF bld["PETSC_HAVE_HYPRE"]
                        THEN R(p, "PCHYPRE/euclid", FALSE, "none")
                        ELSE R(blk, "bjacobi/ilu", FALSE, "none")
                   ELSE R(blk, "bjacobi/ilu", n_ranks > 1, "none")
          [] p.precond = "CS_PARAM_PRECOND_LU" ->
               IF bld["PETSC_HAVE_MUMPS"] THEN R(p, "lu/mumps", FALSE, "none")
               ELSE IF n_ranks = 1 THEN R(p, "lu", FALSE, "none")
               ELSE R(p, "bjacobi/lu", FALSE, "none")
          [] p.precond = "CS_PARAM_PRECOND_MUMPS" ->
               IF bld["PETSC_HAVE_MUMPS"] THEN R(p, "lu/mumps", FALSE, "none")
               ELSE R(p, pc0, FALSE,
                      "_petsc_set_pc_type: preconditioner not interfaced with PETSc")
          [] p.precond = "CS_PARAM_PRECOND_AMG" ->
               IF p.amg_type \in { "CS_PARAM_AMG_PETSC_GAMG_V",
                                   "CS_PARAM_AMG_PETSC_GAMG_W",
                                   "CS_PARAM_AMG_PETSC_PCMG" }
               THEN R(p, "PCGAMG", FALSE, "none")
               ELSE IF p.amg_type \in { "CS_PARAM_AMG_HYPRE_BOOMER_V",
                                        "CS_PARAM_AMG_HYPRE_BOOMER_W" }
               THEN IF pc_boomer_available(bld)
                    THEN IF p.context_param = NULL
                         THEN R(p, pc0, FALSE,
                                "_petsc_pchypre_hook: null BoomerAMG options")
                         ELSE R(p, "PCHYPRE/boomeramg", FALSE, "none")
                    ELSE R(p, "PCGAMG", TRUE, "none")
               ELSE R(p, pc0, FALSE,
                      "_petsc_set_pc_type: invalid AMG type for PETSc")
          [] OTHER ->
               R(p, pc0, FALSE,
                 "_petsc_set_pc_type: preconditioner not interfaced with PETSc")

\* the calls _petsc_set_krylov_solver makes on the KSP, in their order, k
\* being what it leaves
krylov_steps(p, k) ==
  LET more == CASE p.solver \in { "CS_PARAM_ITSOL_GMRES", "CS_PARAM_ITSOL_FGMRES" } ->
                     << "KSPGMRESSetRestart" >>
                [] p.solver = "CS_PARAM_ITSOL_GCR" -> << "KSPGCRSetRestart" >>
                [] p.solver = "CS_PARAM_ITSOL_MUMPS" ->
                     << "PCSetType", "PCFactorSetMatSolverType" >>
                [] OTHER -> << >>
  IN  IF k.ksp = "unset" THEN << "KSPSetNormType" >>
      ELSE IF k.fatal # "none"
      THEN << "KSPSetNormType", "KSPSetType", "KSPSetFromOptions" >>
      ELSE << "KSPSetNormType", "KSPSetType", "KSPSetFromOptions" >>
             \o more \o << "KSPSetTolerances" >>

\* the calls _petsc_set_pc_type makes on the PC, in their order, t being
\* what it leaves
pc_type_steps(p, t) ==
  IF p.solver = "CS_PARAM_ITSOL_MUMPS" \/ t.fatal # "none" THEN << >>
  ELSE << "PCSetType", "PCSetFromOptions", "PCSetUp" >>

\* if (!slesp->setup_done) { KSPSetUp(ksp); cs_sles_petsc_log_setup(ksp); ... }
setup_steps(p) ==
  IF ~p.setup_done THEN << "KSPSetUp", "cs_sles_petsc_log_setup" >> ELSE << >>

\* _petsc_setup_hook(context, ksp_struct), called by the PETSc instance of
\* field id f when it sets itself up
PetscSetupHook(f) ==
  /\ fatal = "none"
  /\ sles[f] # NoSles
  /\ sles[f].hook = "_petsc_setup_hook"
  /\ LET o  == sles[f].context
         k  == petsc_set_krylov_solver(slesp[o], heap, build)
         t  == petsc_set_pc_type(k.p, k.pc, build, cs_glob_n_ranks)
     IN  IF k.fatal # "none"
         THEN /\ fatal' = k.fatal
              /\ slesp' = [ slesp EXCEPT ![o] = k.p ]
              /\ sles' = [ sles EXCEPT ![f].solver = k.ksp ]
              /\ last' = [ op |-> "petsc_setup_hook", obj |-> o, pre |-> slesp[o],
                           pc_run |-> FALSE, warned |-> FALSE,
                           steps |-> krylov_steps(slesp[o], k) ]
         ELSE IF t.fatal # "none"
         THEN /\ fatal' = t.fatal
              /\ slesp' = [ slesp EXCEPT ![o] = t.p ]
              /\ sles' = [ sles EXCEPT ![f].solver = k.ksp, ![f].cvg = k.cvg ]
              /\ last' = [ op |-> "petsc_setup_hook", obj |-> o, pre |-> slesp[o],
                           pc_run |-> TRUE, warned |-> t.warned,
                           steps |-> krylov_steps(slesp[o], k)
                                       \o pc_type_steps(k.p, t) ]
         ELSE /\ fatal' = "none"
              /\ slesp' = [ slesp EXCEPT ![o] = [ t.p EXCEPT !.setup_done = TRUE ] ]
              /\ sles' = [ sles EXCEPT ![f].solver = k.ksp, ![f].pc = t.pc,
                                       ![f].cvg = k.cvg ]
              /\ last' = [ op |-> "petsc_setup_hook", obj |-> o, pre |-> slesp[o],
                           pc_run |-> TRUE, warned |-> t.warned,
                           steps |-> krylov_steps(slesp[o], k)
                                       \o pc_type_steps(k.p, t)
                                       \o << "cs_user_sles_petsc_hook" >>
                                       \o setup_steps(t.p) ]
  /\ UNCHANGED <<build, cs_glob_n_ranks, heap, assigned>>

\* the calls _petsc_common_block_hook makes, then PCSetUp(pc)
common_block_steps ==
  << "PCSetType", "PCFieldSplitSetType", "PCFieldSplitSetBlockSize",
     "PCFieldSplitSetFields", "PCFieldSplitSetFields", "PCFieldSplitSetFields",
     "PCSetUp" >>

\* the composition _petsc_common_block_hook sets for the splits
common_block_hook(p) ==
  CASE p.pcd_block_type \in { "CS_PARAM_PRECOND_BLOCK_UPPER_TRIANGULAR",
                              "CS_PARAM_PRECOND_BLOCK_LOWER_TRIANGULAR",
                              "CS_PARAM_PRECOND_BLOCK_FULL_UPPER_TRIANGULAR",
                              "CS_PARAM_PRECOND_BLOCK_FULL_LOWER_TRIANGULAR" } ->
         "PCFIELDSPLIT/multiplicative"
    [] p.pcd_block_type \in { "CS_PARAM_PRECOND_BLOCK_SYM_GAUSS_SEIDEL",
                              "CS_PARAM_PRECOND_BLOCK_FULL_SYM_GAUSS_SEIDEL" } ->
         "PCFIELDSPLIT/symmetric_multiplicative"
    [] OTHER -> "PCFIELDSPLIT/additive"

\* _petsc_pcgamg_hook(prefix, slesp, is_symm, pc) for one split: the PC of
\* the split and the bft_error raised
petsc_pcgamg_hook(p) ==
  IF p.precond # "CS_PARAM_PRECOND_AMG"
  THEN [ pc |-> "unset", fatal |-> "_petsc_pcgamg_hook: preconditioner is not AMG" ]
  ELSE IF p.amg_type \in { "CS_PARAM_AMG_PETSC_GAMG_V", "CS_PARAM_AMG_PETSC_PCMG",
                           "CS_PARAM_AMG_HYPRE_BOOMER_V",
                           "CS_PARAM_AMG_PETSC_GAMG_W",
                           "CS_PARAM_AMG_HYPRE_BOOMER_W" }
  THEN [ pc |-> "PCGAMG", fatal |-> "none" ]
  ELSE [ pc |-> "unset", fatal |-> "_petsc_pcgamg_hook: invalid type of AMG" ]

\* _petsc_pchypre_hook(prefix, slesp, is_symm, pc) for one split, with the
\* options of the block taken among those available from PETSc
petsc_pchypre_hook(p) ==
  IF p.precond # "CS_PARAM_PRECOND_AMG"
  THEN [ pc |-> "unset", fatal |-> "_petsc_pchypre_hook: preconditioner is not AMG" ]
  ELSE IF p.context_param = NULL
  THEN [ pc |-> "unset", fatal |-> "_petsc_pchypre_hook: null BoomerAMG options" ]
  ELSE IF p.amg_type \in { "CS_PARAM_AMG_HYPRE_BOOMER_V",
                           "CS_PARAM_AMG_HYPRE_BOOMER_W" }
  THEN [ pc |-> "PCHYPRE/boomeramg", fatal |-> "none" ]
  ELSE [ pc |-> "unset", fatal |-> "_petsc_pchypre_hook: invalid type of AMG" ]

\* switch (slesp->precond) of _petsc_block_hook for one split
petsc_block_split(p, bld, n_ranks) ==
  CASE p.precond = "CS_PARAM_PRECOND_NONE" -> [ pc |-> "richardson", fatal |-> "none" ]
    [] p.precond = "CS_PARAM_PRECOND_DIAG" ->
         [ pc |-> "richardson/jacobi", fatal |-> "none" ]
    [] p.precond \in { "CS_PARAM_PRECOND_ILU0", "CS_PARAM_PRECOND_BJACOB_ILU0" } ->
         IF p.solver_class = "CS_PARAM_SLES_CLASS_HYPRE"
         THEN IF cs_param_sles_hypre_from_petsc(bld)
              THEN [ pc |-> "preonly/hypre/euclid", fatal |-> "none" ]
              ELSE [ pc |-> "unset",
                     fatal |-> "_petsc_block_hook: HYPRE is not installed" ]
         ELSE [ pc |-> "richardson/bjacobi/ilu", fatal |-> "none" ]
    [] p.precond = "CS_PARAM_PRECOND_ICC0" ->
         [ pc |-> "richardson/bjacobi/icc", fatal |-> "none" ]
    [] p.precond \in { "CS_PARAM_PRECOND_LU", "CS_PARAM_PRECOND_MUMPS" } ->
         IF bld["PETSC_HAVE_MUMPS"]
         THEN IF p.context_param = NULL
              THEN [ pc |-> "unset", fatal |-> "_petsc_block_hook: null MUMPS options" ]
              ELSE [ pc |-> "preonly/mumps", fatal |-> "none" ]
         ELSE IF n_ranks = 1 THEN [ pc |-> "preonly/lu", fatal |-> "none" ]
         ELSE [ pc |-> "preonly/bjacobi/lu", fatal |-> "none" ]
    [] p.precond \in { "CS_PARAM_PRECOND_SSOR", "CS_PARAM_PRECOND_BJACOB_SGS" } ->
         [ pc |-> "richardson/bjacobi/sor", fatal |-> "none" ]
    [] OTHER -> [ pc |-> "unset", fatal |-> "_petsc_block_hook: invalid preconditioner" ]

\* the calls made for one split of the fields x, y, z: the predefined
\* settings named recipe, then what the hook calls on the split
split_steps(recipe, closing) == << recipe >> \o closing

\* what is common to the three hooks of block preconditioning: the Krylov
\* solver, the block settings, the three splits with the settings sp of one
\* split and its calls, the user hook, the options, the set-up done once
petsc_block_run(p, h, bld, sp, calls) ==
  LET k      == petsc_set_krylov_solver(p, h, bld)
      before == << "KSPSetOptionsPrefix" >> \o krylov_steps(p, k)
      splits == calls \o calls \o calls
      after  == << "cs_user_sles_petsc_hook", "PCSetFromOptions",
                   "KSPSetFromOptions" >>
  IN  IF k.fatal # "none"
      THEN [ p |-> k.p, ksp |-> k.ksp, pc |-> "unset", cvg |-> k.cvg,
             fatal |-> k.fatal, steps |-> before ]
      ELSE IF sp.fatal # "none"
      THEN [ p |-> k.p, ksp |-> k.ksp, pc |-> common_block_hook(p), cvg |-> k.cvg,
             fatal |-> sp.fatal, steps |-> before \o common_block_steps ]
      ELSE [ p |-> [ k.p EXCEPT !.setup_done = TRUE ], ksp |-> k.ksp,
             pc |-> common_block_hook(p), cvg |-> k.cvg, fatal |-> "none",
             steps |-> before \o common_block_steps \o splits \o after
                         \o setup_steps(k.p) ]

\* a hook of block preconditioning called by the PETSc instance of field id
\* f when it sets itself up, r being what the hook does
BlockHookCalled(f, r, name) ==
  /\ slesp' = [ slesp EXCEPT ![sles[f].context] = r.p ]
  /\ sles' = [ sles EXCEPT ![f].solver = r.ksp, ![f].pc = r.pc, ![f].cvg = r.cvg ]
  /\ fatal' = r.fatal
  /\ last' = [ op |-> name, obj |-> sles[f].context, pre |-> slesp[sles[f].context],
               steps |-> r.steps ]
  /\ UNCHANGED <<build, cs_glob_n_ranks, heap, assigned>>

\* _petsc_amg_block_gamg_hook(context, ksp_struct)
PetscAmgBlockGamgHook(f) ==
  /\ fatal = "none"
  /\ sles[f] # NoSles
  /\ sles[f].hook = "_petsc_amg_block_gamg_hook"
  /\ LET p == slesp[sles[f].context]
     IN  BlockHookCalled(f, petsc_block_run(p, heap, build, petsc_pcgamg_hook(p),
                            split_steps("_petsc_pcgamg_hook",
                                        << "PCSetFromOptions", "KSPSetFromOptions" >>)),
                         "petsc_amg_block_gamg_hook")

\* _petsc_amg_block_boomer_hook(context, ksp_struct)
PetscAmgBlockBoomerHook(f) ==
  /\ fatal = "none"
  /\ sles[f] # NoSles
  /\ sles[f].hook = "_petsc_amg_block_boomer_hook"
  /\ LET p == slesp[sles[f].context]
     IN  BlockHookCalled(f, petsc_block_run(p, heap, build, petsc_pchypre_hook(p),
                            split_steps("_petsc_pchypre_hook",
                                        << "PCSetFromOptions", "KSPSetFromOptions" >>)),
                         "petsc_amg_block_boomer_hook")

\* _petsc_block_hook(context, ksp_struct)
PetscBlockHook(f) ==
  /\ fatal = "none"
  /\ sles[f] # NoSles
  /\ sles[f].hook = "_petsc_block_hook"
  /\ LET p == slesp[sles[f].context]
     IN  BlockHookCalled(f, petsc_block_run(p, heap, build,
                            petsc_block_split(p, build, cs_glob_n_ranks),
                            split_steps("_petsc_cmd",
                                        << "PCSetFromOptions", "KSPSetUp" >>)),
                         "petsc_block_hook")

\* the type of the context cs_sles_get_context returns for an instance
ContextType(s) ==
  CASE s.family = "saturne" -> IF s.solver = "multigrid" THEN "cs_multigrid_t"
                               ELSE "cs_sles_it_t"
    [] s.family = "petsc" -> "cs_sles_petsc_t"
    [] s.family = "hypre" -> "cs_sles_hypre_t"
    [] s.family = "mumps" -> "cs_sles_mumps_t"
    [] OTHER -> "NULL"

\* the type cs_param_sles_update_cvg_settings takes the context for, "none"
\* in the cases where it does not read it
update_context_type(p, bld) ==
  CASE p.solver_class = "CS_PARAM_SLES_CLASS_CS" ->
         IF p.solver = "CS_PARAM_ITSOL_AMG" THEN "cs_multigrid_t" ELSE "cs_sles_it_t"
    [] p.solver_class = "CS_PARAM_SLES_CLASS_PETSC" /\ bld["HAVE_PETSC"] ->
         "cs_sles_petsc_t"
    [] p.solver_class = "CS_PARAM_SLES_CLASS_HYPRE" /\ bld["HAVE_HYPRE"] ->
         "cs_sles_hypre_t"
    [] OTHER -> "none"

\* the settings cs_param_sles_update_cvg_settings hands to the instance
update_cvg_fields(p, bld) ==
  CASE p.solver_class = "CS_PARAM_SLES_CLASS_CS" ->
         IF p.solver \in { "CS_PARAM_ITSOL_GCR", "CS_PARAM_ITSOL_GMRES" }
         THEN [ n_max_iter |-> p.cvg_param.n_max_iter, restart |-> p.restart ]
         ELSE [ n_max_iter |-> p.cvg_param.n_max_iter ]
    [] p.solver_class = "CS_PARAM_SLES_CLASS_PETSC" /\ bld["HAVE_PETSC"] ->
         [ rtol |-> p.cvg_param.rtol, atol |-> p.cvg_param.atol,
           dtol |-> p.cvg_param.dtol, n_max_iter |-> p.cvg_param.n_max_iter ]
    [] p.solver_class = "CS_PARAM_SLES_CLASS_HYPRE" /\ bld["HAVE_HYPRE"] ->
         [ n_max_iter |-> p.cvg_param.n_max_iter ]
    [] OTHER -> << >>

\* the settings of an instance once the settings c are set in it
cvg_set(old, c) ==
  [ k \in (DOMAIN c) \cup ((DOMAIN old) \ { "applied" }) |->
      IF k \in DOMAIN c THEN c[k] ELSE old[k] ]

\* mutant: the preconditioner of the instance is reset as well
update_instance_reset(s, c) == [ s EXCEPT !.cvg = cvg_set(s.cvg, c), !.pc = "unset" ]

\* cs_sles_it_set_n_max_iter, cs_sles_it_set_restart_interval,
\* cs_multigrid_set_max_cycles, cs_sles_petsc_set_cvg_criteria and
\* cs_sles_hypre_set_n_max_iter: the instance with the settings c
update_instance(s, c) == [ s EXCEPT !.cvg = cvg_set(s.cvg, c) ]

\* cs_param_sles_update_cvg_settings(use_field_id, slesp). When the context
\* of the instance is not of the type the class of slesp tells, it is
\* written through a pointer of another type: something of the instance is
\* overwritten, or the run ends.
UpdateCvgSettings(o) ==
  /\ fatal = "none"
  /\ slesp[o] # NoParams
  /\ LET p == slesp[o]
         f == p.field_id
         s == sles[f]
         t == update_context_type(p, build)
     IN  /\ IF s = NoSles \/ t = "none"
            THEN UNCHANGED <<sles, fatal>>
            ELSE IF ContextType(s) = t
            THEN /\ sles' = [ sles EXCEPT ![f] =
                                update_instance(s, update_cvg_fields(p, build)) ]
                 /\ UNCHANGED fatal
            ELSE \/ /\ sles' = [ sles EXCEPT ![f].solver = "overwritten" ]
                    /\ UNCHANGED fatal
                 \/ /\ fatal' = "cs_param_sles_update_cvg_settings: invalid access"
                    /\ UNCHANGED sles
         /\ last' = [ op |-> "update_cvg_settings", obj |-> o, pre |-> p,
                      pre_sles |-> s,
                      typed |-> (s # NoSles /\ t # "none" /\ ContextType(s) = t) ]
  /\ UNCHANGED <<build, cs_glob_n_ranks, slesp, heap, assigned>>

\* the builds drawn for the set-up of systems
SetupBuilds ==
  { b \in Builds :
      \/ \A k \in DOMAIN b : ~b[k]
      \/ b["HAVE_PETSC"] /\ ~b["HAVE_HYPRE"] /\ ~b["HAVE_MUMPS"]
           /\ ~b["PETSC_HAVE_HYPRE"] /\ b["PETSC_HAVE_MUMPS"]
      \/ \A k \in DOMAIN b : b[k] }

SlesIdle ==
  /\ build \in { b \in Builds : \A k \in DOMAIN b : ~b[k] }
  /\ cs_glob_n_ranks = 1
  /\ slesp = [ o \in Objects |-> NoParams ]
  /\ heap = [ a \in 1..MaxBlocks |-> FreeBlock ]
  /\ sles = [ f \in FieldIds |-> NoSles ]
  /\ fatal = "none"
  /\ assigned = FALSE
  /\ last = NoOp

SlesStart(builds) ==
  /\ build \in builds
  /\ cs_glob_n_ranks \in { 1, 2 }
  /\ slesp = [ o \in Objects |-> NoParams ]
  /\ heap = [ a \in 1..MaxBlocks |-> FreeBlock ]
  /\ sles = [ f \in FieldIds |-> NoSles ]
  /\ fatal = "none"
  /\ assigned = FALSE
  /\ last = NoOp

\* ------------------------------------------------------------------------
\* cs_saddle_minres run on several processes (cs_saddle_itsol.c)
\* ------------------------------------------------------------------------

VARIABLES
  ssys,   \* the saddle-point system: its range set, the local size per process
  sbp,    \* the block preconditioner: which of its solvers are defined
  run,    \* the build, the iteration cap, the iteration where the reduced
          \* residual falls below the tolerance
  rank    \* per process: position in cs_saddle_minres, status, counters,
          \* layout of the vectors

pvars == <<ssys, sbp, run, rank>>

\* number of processes of a run
MaxRanks == 2

\* iteration cap of the runs on several processes
MaxParIter == 2

Ranks == 1..MaxRanks

\* x1 of the caller and the parts of the workspace the helpers convert
Vecs == { "x1", "v", "z", "mz" }

\* the helpers see a process through the reductions it has made in the
\* current iteration and the layout of its vectors
AllScatter == [ x \in Vecs |-> "scatter" ]

\* BFT_MALLOC of no element gives a null pointer; so do the offsets in it
null_vectors(size) == size = 0

\* cs_range_set_gather(rset, ..., x, x): nothing without a range set
range_set_gather(h, rset, x) ==
  IF rset = "NULL" THEN h
  ELSE [ h EXCEPT !.layout[x] = IF @ = "scatter" THEN "gather"
                                ELSE "gathered twice" ]

\* cs_range_set_scatter(rset, ..., x, x): nothing without a range set
range_set_scatter(h, rset, x) ==
  IF rset = "NULL" THEN h
  ELSE [ h EXCEPT !.layout[x] = IF @ = "gather" THEN "scatter"
                                ELSE "scattered twice" ]

\* a vector a solver or a matrix product writes: in the gather view when
\* there is a range set
written_gathered(h, rset, x) ==
  IF rset = "NULL" THEN h ELSE [ h EXCEPT !.layout[x] = "gather" ]

\* cs_parall_sum(1, CS_DOUBLE, &value)
parall_sum(h) == [ h EXCEPT !.sums = @ + 1 ]

\* mutant: x is not moved back to the scatter view
dot_product_no_scatter(h, rset, isnull, x, y) ==
  IF isnull THEN h
  ELSE LET g == IF rset # "NULL"
                THEN range_set_scatter(
                       range_set_gather(range_set_gather(h, rset, x), rset, y),
                       rset, y)
                ELSE h
       IN  parall_sum(g)

\* _dot_product(ssys, x, y), isnull telling that x or y is null
dot_product(h, rset, isnull, x, y) ==
  IF isnull THEN h
  ELSE LET g == IF rset # "NULL"
                THEN range_set_scatter(
                       range_set_scatter(
                         range_set_gather(range_set_gather(h, rset, x), rset, y),
                         rset, x),
                       rset, y)
                ELSE h
       IN  parall_sum(g)

\* _norm(ssys, x)
norm(h, rset, isnull, x) ==
  IF isnull THEN h
  ELSE LET g == IF rset # "NULL"
                THEN range_set_scatter(range_set_gather(h, rset, x), rset, x)
                ELSE h
       IN  parall_sum(g)

\* cs_matrix_vector_multiply_gs_allocated(rset, mat, vec, matvec)
cs_matrix_vector_multiply_gs_allocated(h, rset, isnull, vec, matvec) ==
  IF isnull THEN h
  ELSE LET g == written_gathered(range_set_gather(h, rset, vec), rset, matvec)
       IN  IF rset # "NULL"
           THEN range_set_scatter(range_set_scatter(g, rset, vec), rset, matvec)
           ELSE g

\* cs_equation_prepare_system(1, n, m11, rset, false, z, r): unknown and
\* right-hand side moved to the gather view
cs_equation_prepare_system(h, rset, x, b) ==
  range_set_gather(range_set_gather(h, rset, x), rset, b)

\* _diag_pc_apply(ssys, sbp, r, z), isnull telling that z is null
diag_pc_apply(h, rset, pre, isnull, r, z) ==
  IF isnull THEN h
  ELSE LET m11 == IF ~pre.m11_slesp THEN h
                  ELSE range_set_scatter(
                         range_set_scatter(
                           written_gathered(
                             parall_sum(cs_equation_prepare_system(h, rset, z, r)),
                             rset, z),
                           rset, z),
                         rset, r)
       IN  IF ~pre.schur_slesp THEN m11 ELSE parall_sum(m11)

\* what a process starts cs_saddle_minres from
RankIdle ==
  [ pos |-> "idle", cvg |-> CS_SLES_ITERATING, n_algo_iter |-> 0, sums |-> 0,
    done |-> << >>, layout |-> AllScatter ]

\* the view the helpers have of process p
Helper(p) == [ sums |-> rank[p].sums, layout |-> rank[p].layout ]

\* process p once a helper has left h and the next call is at nxt
AfterHelper(p, h, nxt) ==
  rank' = [ rank EXCEPT ![p].pos = nxt, ![p].sums = h.sums,
                        ![p].layout = h.layout ]

\* the workspace is allocated and the first residual computed:
\* _compute_residual_3(ssys, x1, x2, v)
ParResidual(p) ==
  /\ rank[p].pos = "idle"
  /\ AfterHelper(p, cs_matrix_vector_multiply_gs_allocated(
                      Helper(p), ssys.rset, null_vectors(ssys.size[p]), "x1", "v"),
                 "pc0")
  /\ UNCHANGED <<ssys, sbp, run>>

\* _diag_pc_apply(ssys, sbp, v, z), before the loop and in it
ParPrecond(p) ==
  /\ rank[p].pos \in { "pc0", "pc" }
  /\ AfterHelper(p, diag_pc_apply(Helper(p), ssys.rset, sbp,
                                  null_vectors(ssys.size[p]), "v", "z"),
                 IF rank[p].pos = "pc0" THEN "norm" ELSE "beta")
  /\ UNCHANGED <<ssys, sbp, run>>

\* info->res0 = _norm(ssys, v)
ParNorm(p) ==
  /\ rank[p].pos = "norm"
  /\ AfterHelper(p, norm(Helper(p), ssys.rset, null_vectors(ssys.size[p]), "v"),
                 "dot0")
  /\ UNCHANGED <<ssys, sbp, run>>

\* _dot_product(ssys, v, z) before the loop and for beta,
\* _dot_product(ssys, z, mz) for alpha; the reductions made before the loop
\* are counted once the loop is reached
ParDot(p) ==
  /\ rank[p].pos \in { "dot0", "alpha", "beta" }
  /\ LET isnull == null_vectors(ssys.size[p])
         h == IF rank[p].pos = "alpha"
              THEN dot_product(Helper(p), ssys.rset, isnull, "z", "mz")
              ELSE dot_product(Helper(p), ssys.rset, isnull, "v", "z")
     IN  rank' = [ rank EXCEPT
                     ![p].pos = CASE rank[p].pos = "dot0" -> "while"
                                  [] rank[p].pos = "alpha" -> "pc"
                                  [] OTHER -> "test",
                     ![p].layout = h.layout,
                     ![p].sums = IF rank[p].pos = "dot0" THEN 0 ELSE h.sums,
                     ![p].done = IF rank[p].pos = "dot0"
                                 THEN Append(@, h.sums) ELSE @ ]
  /\ UNCHANGED <<ssys, sbp, run>>

\* the loop is entered: assert(fabs(beta) > 0.), then
\* _matvec_product(ssys, z, mz). beta is zero on a process whose vectors are
\* null. _matvec_product reads rset->ifs: without a range set the run ends
\* or goes on with what was read.
ParMatvec(p) ==
  /\ rank[p].pos = "while"
  /\ rank[p].cvg = CS_SLES_ITERATING
  /\ LET isnull == null_vectors(ssys.size[p])
         h == cs_matrix_vector_multiply_gs_allocated(Helper(p), ssys.rset, isnull,
                                                     "z", "mz")
     IN  IF isnull /\ ~run.ndebug
         THEN rank' = [ rank EXCEPT ![p].pos = "aborted" ]
         ELSE IF ssys.rset = "NULL"
         THEN \/ rank' = [ rank EXCEPT ![p].pos = "aborted" ]
              \/ AfterHelper(p, h, "alpha")
         ELSE AfterHelper(p, h, "alpha")
  /\ UNCHANGED <<ssys, sbp, run>>

\* _cvg_test(info) at the end of an iteration: the processes that took part
\* in the reductions hold the same residual, below the tolerance from
\* iteration run.stop_at on; a process whose vectors are null holds a
\* residual that is not a number
ParCvgTest(p) ==
  /\ rank[p].pos = "test"
  /\ LET n == rank[p].n_algo_iter + 1
         below == ~null_vectors(ssys.size[p]) /\ n >= run.stop_at
     IN  rank' = [ rank EXCEPT
                     ![p].pos = "while",
                     ![p].n_algo_iter = n,
                     ![p].cvg = IF below THEN CS_SLES_CONVERGED
                                ELSE IF n >= run.n_max_algo_iter
                                THEN CS_SLES_MAX_ITERATION
                                ELSE CS_SLES_ITERATING,
                     ![p].sums = 0,
                     ![p].done = Append(@, rank[p].sums) ]
  /\ UNCHANGED <<ssys, sbp, run>>

\* the loop condition fails on process p: it frees the workspace and returns
ParExit(p) ==
  /\ rank[p].pos = "while"
  /\ rank[p].cvg # CS_SLES_ITERATING
  /\ rank' = [ rank EXCEPT ![p].pos = "returned" ]
  /\ UNCHANGED <<ssys, sbp, run>>

\* a run on several processes: a process may hold no unknown; the processes
\* that hold some are numbered first
ParStart ==
  /\ ssys \in [ rset : { "NULL", "set" }, size : [ Ranks -> { 0, 1 } ] ]
  /\ \A p \in Ranks, q \in Ranks : p < q => ssys.size[p] >= ssys.size[q]
  /\ sbp \in [ m11_slesp : BOOLEAN, schur_slesp : BOOLEAN ]
  /\ run \in [ ndebug : BOOLEAN, n_max_algo_iter : { MaxParIter },
               stop_at : { 1, MaxParIter, MaxParIter + 1 } ]
  /\ rank = [ p \in Ranks |-> RankIdle ]

ParIdle ==
  /\ ssys = [ rset |-> "NULL", size |-> [ p \in Ranks |-> 0 ] ]
  /\ sbp = [ m11_slesp |-> FALSE, schur_slesp |-> FALSE ]
  /\ run = [ ndebug |-> FALSE, n_max_algo_iter |-> 0, stop_at |-> 1 ]
  /\ rank = [ p \in Ranks |-> RankIdle ]

\* ------------------------------------------------------------------------
\* Kernel tuning by several processes (cs_matrix_tuning.cpp)
\* ------------------------------------------------------------------------

VARIABLES
  dcall,  \* the call of cs_matrix_variant_tuned all processes make: the
          \* build, the number of processes, the arguments, the variant list
  dproc   \* per process: position, loop slot, spmv_cost, wt_r0 of the last
          \* slot it timed, the collective reductions it has called, min_c
          \* and r_variant

dvars == <<dcall, dproc>>

\* the two "continue" of the loop of _matrix_tune_test, for the call c
dist_skipped(c, v, op_type) ==
  \/ v.vector_multiply[op_type] = nullptr
  \/ c.have_accel /\ c.alloc_mode = "HOST" /\ v.vector_multiply_xy_hd[0] = "d"

\* #if defined(HAVE_MPI) ... if (cs_glob_n_ranks > 1)
dist_reduces(c) == c.have_mpi /\ c.n_ranks > 1

\* double wt_r0 = wt_d.nsec * 1e-9
dist_wt_r0(nsec) == Fin(nsec * SCALE)

\* cs_real_t wtu = wt_r0 / n_runs
dist_wtu(wt_r0, n_runs) == FDiv(wt_r0, Fin(n_runs * SCALE))

\* mutant: the reduction returns the value of the first process
RECURSIVE mpi_max_first(_, _)
mpi_max_first(vals, n) ==
  IF n = 1 THEN vals[1] ELSE mpi_max_first(vals, n - 1)

\* MPI_Allreduce(..., MPI_DOUBLE, MPI_MAX, cs_glob_mpi_comm) of one value
\* per process, over the processes 1..n
RECURSIVE mpi_max(_, _)
mpi_max(vals, n) ==
  IF n = 1 THEN vals[1] ELSE FMax(mpi_max(vals, n - 1), vals[n])

\* MPI_Allreduce(cost_local, spmv_cost, n, MPI_DOUBLE, MPI_MAX, ...): the
\* maximum entry by entry of the arrays of the processes
mpi_max_costs(costs, n_procs, n) ==
  [ i \in 0..(n - 1) |->
    [ j \in OpTypes |->
      mpi_max([ p \in 1..n_procs |-> costs[p][i][j] ], n_procs) ] ]

NoCall ==
  [ active |-> FALSE, have_mpi |-> FALSE, n_ranks |-> 1, have_accel |-> FALSE,
    alloc_mode |-> "HOST", fill_type |-> "CS_MATRIX_SCALAR", n_measure |-> 0,
    n_variants |-> 0, m_variant |-> << >>, n_r_variants |-> 0 ]

NoProc ==
  [ pos |-> "idle", slot |-> <<0, 0>>, spmv_cost |-> << >>,
    wt_r0 |-> UnsetCost, timed |-> <<-1, -1>>, reds |-> << >>,
    min_c |-> NoMinC, r_variant |-> << >> ]

DistIdle ==
  /\ dcall = NoCall
  /\ dproc = [ p \in Ranks |-> NoProc ]

\* the processes of the run
DistRanks == 1..dcall.n_ranks

\* lists of n variants: every variant has both kernels or the last one has
\* the kernel of y = A.x only; on a build with devices the odd ones are
\* device variants
DistLists(n, accel, fill) ==
  { [ i \in 0..(n - 1) |->
      BuiltVariant(i, IF i = n - 1 THEN ks ELSE <<TRUE, TRUE>>,
                   IF accel /\ i % 2 = 1 THEN "d" ELSE "h", fill) ] :
    ks \in KernelSets }

\* cs_matrix_variant_tuned is called by every process for the same matrix
\* and the same number of timed runs: r_variant is allocated, the list is
\* built, spmv_cost is allocated
DistCall ==
  /\ ~dcall.active
  /\ \E mpi \in BOOLEAN, nr \in { 1, MaxRanks }, accel \in BOOLEAN,
        dev \in BOOLEAN, alloc \in { "HOST", "DEVICE" }, nm \in { MaxMeasure },
        n \in { 1, MaxVariants } :
       /\ nr > 1 => mpi
       /\ dev => accel
       /\ alloc = "DEVICE" => dev
       /\ \E mv \in DistLists(n, accel, "CS_MATRIX_SCALAR") :
            /\ dcall' = [ active |-> TRUE, have_mpi |-> mpi, n_ranks |-> nr,
                          have_accel |-> accel, alloc_mode |-> alloc,
                          fill_type |-> "CS_MATRIX_SCALAR", n_measure |-> nm,
                          n_variants |-> n, m_variant |-> mv,
                          n_r_variants |-> IF dev THEN 3 ELSE 1 ]
            /\ dproc' =
                 [ p \in Ranks |->
                   IF p > nr THEN NoProc
                   ELSE [ NoProc EXCEPT
                            !.pos = "test",
                            !.spmv_cost = [ i \in 0..(n - 1) |->
                                            [ j \in OpTypes |-> UnsetCost ] ],
                            !.r_variant =
                              [ k \in 0..((IF dev THEN 3 ELSE 1) - 1) |->
                                UnsetVariant ] ] ]

\* One pass of the inner loop body of _matrix_tune_test on process p, up to
\* the call of MPI_Allreduce when there is one
DistTestSlot(p) ==
  /\ dcall.active
  /\ p \in DistRanks
  /\ dproc[p].pos = "test"
  /\ tune_needed(dcall.n_variants)
  /\ dproc[p].slot[1] < dcall.n_variants
  /\ LET v_id    == dproc[p].slot[1]
         op_type == dproc[p].slot[2]
         v       == dcall.m_variant[v_id]
         n_runs  == tune_n_runs(dcall.n_measure)
     IN  IF dist_skipped(dcall, v, op_type)
         THEN dproc' = [ dproc EXCEPT
                           ![p].spmv_cost[v_id][op_type] = tune_no_cost,
                           ![p].slot = NextSlot(dproc[p].slot) ]
         ELSE \E nsec \in NsecSet :
                IF dist_reduces(dcall)
                THEN dproc' = [ dproc EXCEPT
                                  ![p].spmv_cost[v_id][op_type] = tune_no_cost,
                                  ![p].wt_r0 = dist_wt_r0(nsec),
                                  ![p].timed = dproc[p].slot,
                                  ![p].reds = Append(dproc[p].reds,
                                                     <<"test", v_id, op_type, 1>>),
                                  ![p].pos = "allreduce_test" ]
                ELSE dproc' = [ dproc EXCEPT
                                  ![p].spmv_cost[v_id][op_type] =
                                    dist_wtu(dist_wt_r0(nsec), n_runs),
                                  ![p].wt_r0 = dist_wt_r0(nsec),
                                  ![p].timed = dproc[p].slot,
                                  ![p].slot = NextSlot(dproc[p].slot) ]
  /\ UNCHANGED dcall

\* Every process has called MPI_Allreduce in _matrix_tune_test: each one
\* receives the maximum, stores the cost of the slot and goes on
DistTestAllreduce ==
  /\ dcall.active
  /\ \A p \in DistRanks : dproc[p].pos = "allreduce_test"
  /\ LET mx == mpi_max([ p \in DistRanks |-> dproc[p].wt_r0 ], dcall.n_ranks)
         n_runs == tune_n_runs(dcall.n_measure)
     IN  dproc' =
           [ p \in Ranks |->
             IF p \notin DistRanks THEN dproc[p]
             ELSE [ dproc[p] EXCEPT
                      !.spmv_cost[dproc[p].slot[1]][dproc[p].slot[2]] =
                        dist_wtu(mx, n_runs),
                      !.slot = NextSlot(dproc[p].slot),
                      !.pos = "test" ] ]
  /\ UNCHANGED dcall

\* min_c and r_variant of _matrix_tune_spmv_select from the costs cost
dist_selected(pr, c, cost) ==
  LET mc == select_min_c(c.m_variant, cost, c.n_variants)
  IN  [ pr EXCEPT
          !.spmv_cost = cost,
          !.min_c = mc,
          !.r_variant = [ k \in DOMAIN pr.r_variant |->
                          select_output(pr.r_variant[k], c.m_variant, mc, k,
                                        c.fill_type) ],
          !.pos = "done" ]

\* _matrix_tune_spmv_select on process p: up to the call of MPI_Allreduce
\* when there is one, to its end otherwise
DistSelect(p) ==
  /\ dcall.active
  /\ p \in DistRanks
  /\ dproc[p].pos = "test"
  /\ tune_needed(dcall.n_variants)
  /\ dproc[p].slot[1] >= dcall.n_variants
  /\ IF dist_reduces(dcall)
     THEN dproc' = [ dproc EXCEPT
                       ![p].reds = Append(dproc[p].reds,
                                          <<"select", 0, 0,
                                            dcall.n_variants * 2>>),
                       ![p].pos = "allreduce_select" ]
     ELSE dproc' = [ dproc EXCEPT
                       ![p] = dist_selected(dproc[p], dcall, dproc[p].spmv_cost) ]
  /\ UNCHANGED dcall

\* Every process has called MPI_Allreduce in _matrix_tune_spmv_select: each
\* one receives the maxima and makes its selection
DistSelectAllreduce ==
  /\ dcall.active
  /\ \A p \in DistRanks : dproc[p].pos = "allreduce_select"
  /\ LET cost == mpi_max_costs([ p \in DistRanks |-> dproc[p].spmv_cost ],
                               dcall.n_ranks, dcall.n_variants)
     IN  dproc' = [ p \in Ranks |->
                    IF p \notin DistRanks THEN dproc[p]
                    ELSE dist_selected(dproc[p], dcall, cost) ]
  /\ UNCHANGED dcall

\* Single-variant case on process p
DistSingle(p) ==
  /\ dcall.active
  /\ p \in DistRanks
  /\ dproc[p].pos = "test"
  /\ ~tune_needed(dcall.n_variants)
  /\ dproc' = [ dproc EXCEPT ![p].r_variant[0] = dcall.m_variant[0],
                             ![p].pos = "done" ]
  /\ UNCHANGED dcall

\* every process has returned; another call can be made
DistReturn ==
  /\ dcall.active
  /\ \A p \in DistRanks : dproc[p].pos = "done"
  /\ dcall' = NoCall
  /\ dproc' = [ p \in Ranks |-> NoProc ]

\* ------------------------------------------------------------------------
\* Specifications
\* ------------------------------------------------------------------------

MinresInit ==
  /\ \E cap \in CapSet, tol \in TolSet, dtol \in DtolSet :
       info = cs_iter_algo_define(cap, tol[1], tol[2], dtol)
  /\ pc = "idle"
  /\ ndebug \in BOOLEAN
  /\ loc = NoLocals
  /\ x_nan = FALSE
  /\ zero_div = "none"
  /\ entry = [ cvg |-> CS_SLES_ITERATING, n_algo_iter |-> 0 ]
  /\ trace = << >>

MinresIdle ==
  /\ info = cs_iter_algo_define(0, 0, 0, 0)
  /\ pc = "idle"
  /\ ndebug = FALSE
  /\ loc = NoLocals
  /\ x_nan = FALSE
  /\ zero_div = "none"
  /\ entry = [ cvg |-> CS_SLES_ITERATING, n_algo_iter |-> 0 ]
  /\ trace = << >>

vars == <<mvars, tvars, svars, pvars, dvars>>

Init == MinresInit /\ TuneIdle /\ SlesIdle /\ ParIdle /\ DistIdle

Next ==
  \/ MinresEnter /\ UNCHANGED <<tvars, svars, pvars, dvars>>
  \/ MinresIter /\ UNCHANGED <<tvars, svars, pvars, dvars>>
  \/ MinresExit /\ UNCHANGED <<tvars, svars, pvars, dvars>>
  \/ Reset /\ UNCHANGED <<tvars, svars, pvars, dvars>>

\* the block solver and its convergence state
Spec == Init /\ [][Next]_vars

TuneInit == MinresIdle /\ TuneIdle /\ SlesIdle /\ ParIdle /\ DistIdle

TuneNext ==
  \/ TuneCall /\ UNCHANGED <<mvars, svars, pvars, dvars>>
  \/ TuneTestSlot /\ UNCHANGED <<mvars, svars, pvars, dvars>>
  \/ TuneSelect /\ UNCHANGED <<mvars, svars, pvars, dvars>>
  \/ TuneSingle /\ UNCHANGED <<mvars, svars, pvars, dvars>>
  \/ TuneReturn /\ UNCHANGED <<mvars, svars, pvars, dvars>>

\* the kernel tuning engine
SpecTune == TuneInit /\ [][TuneNext]_vars

\* a run of several processes is drawn for the build with PETSc alone
SlesInit ==
  /\ MinresIdle /\ TuneIdle /\ ParIdle /\ DistIdle /\ SlesStart(SetupBuilds)
  /\ cs_glob_n_ranks > 1 => (build["HAVE_PETSC"] /\ ~build["HAVE_HYPRE"])

SlesNext ==
  \/ \E o \in Objects : Create(o) /\ UNCHANGED <<mvars, tvars, pvars, dvars>>
  \/ \E o \in Owned : Assign(o) /\ UNCHANGED <<mvars, tvars, pvars, dvars>>
  \/ \E o \in Owned : BoomeramgReset(o) /\ UNCHANGED <<mvars, tvars, pvars, dvars>>
  \/ \E o \in Owned : Boomeramg(o) /\ UNCHANGED <<mvars, tvars, pvars, dvars>>
  \/ \E o \in Owned : BoomeramgAdvanced(o) /\ UNCHANGED <<mvars, tvars, pvars, dvars>>
  \/ \E o \in Owned : Mumps(o) /\ UNCHANGED <<mvars, tvars, pvars, dvars>>
  \/ \E o \in Owned : MumpsAdvanced(o) /\ UNCHANGED <<mvars, tvars, pvars, dvars>>
  \/ \E s \in Objects, d \in Objects : CopyFrom(s, d) /\ UNCHANGED <<mvars, tvars, pvars, dvars>>
  \/ \E o \in Owned : Set(o) /\ UNCHANGED <<mvars, tvars, pvars, dvars>>
  \/ \E f \in FieldIds : PetscSetupHook(f) /\ UNCHANGED <<mvars, tvars, pvars, dvars>>

\* the solver parameters, their set-up and the PETSc set-up hook
SpecSles == SlesInit /\ [][SlesNext]_vars

\* the convergence settings the owner of an object changes between solves
CvgChanges ==
  { [ cvg_param |-> [ n_max_iter |-> 200, atol |-> Dec(1, -12),
                      rtol |-> Dec(1, -5), dtol |-> Dec(1, 3) ],
      restart |-> 30 ],
    [ cvg_param |-> create_cvg_param, restart |-> 15 ] }

\* the owner of the object changes its convergence settings
AssignCvg(o) ==
  /\ fatal = "none"
  /\ slesp[o] # NoParams
  /\ \E c \in CvgChanges :
       /\ slesp[o].cvg_param # c.cvg_param
       /\ slesp' = [ slesp EXCEPT ![o].cvg_param = c.cvg_param,
                                  ![o].restart = c.restart ]
  /\ last' = [ op |-> "assign_cvg", obj |-> o ]
  /\ UNCHANGED <<build, cs_glob_n_ranks, heap, sles, fatal, assigned>>

\* settings of systems split according to the components x, y, z
BlockSettings ==
  LET S(class, solver, precond, amg, blk) ==
        [ solver_class |-> class, solver |-> solver, precond |-> precond,
          amg_type |-> amg, pcd_block_type |-> blk, restart |-> 15,
          flexible |-> FALSE, verbosity |-> 0, cvg_param |-> create_cvg_param ]
  IN  { S("CS_PARAM_SLES_CLASS_PETSC", "CS_PARAM_ITSOL_CG", "CS_PARAM_PRECOND_DIAG",
          "CS_PARAM_AMG_NONE", "CS_PARAM_PRECOND_BLOCK_DIAG"),
        S("CS_PARAM_SLES_CLASS_PETSC", "CS_PARAM_ITSOL_GMRES", "CS_PARAM_PRECOND_LU",
          "CS_PARAM_AMG_NONE", "CS_PARAM_PRECOND_BLOCK_UPPER_TRIANGULAR"),
        S("CS_PARAM_SLES_CLASS_HYPRE", "CS_PARAM_ITSOL_GCR", "CS_PARAM_PRECOND_ILU0",
          "CS_PARAM_AMG_NONE", "CS_PARAM_PRECOND_BLOCK_SYM_GAUSS_SEIDEL"),
        S("CS_PARAM_SLES_CLASS_PETSC", "CS_PARAM_ITSOL_CG", "CS_PARAM_PRECOND_AMG",
          "CS_PARAM_AMG_PETSC_GAMG_V", "CS_PARAM_PRECOND_BLOCK_LOWER_TRIANGULAR") }

\* an object is created and its members assigned; cs_param_sles_set has
\* not been called for it yet
SetupStart ==
  /\ build \in SetupBuilds
  /\ cs_glob_n_ranks \in { 1, 2 }
  /\ \E p0 \in { cs_param_sles_create(0, "a") }
                 \cup { assign_settings(cs_param_sles_create(0, "a"), st) :
                          st \in Settings \cup BlockSettings } :
       slesp = [ o \in Objects |-> IF o = "a" THEN p0 ELSE NoParams ]
  /\ heap = [ a \in 1..MaxBlocks |-> FreeBlock ]
  /\ sles = [ f \in FieldIds |-> NoSles ]
  /\ fatal = "none"
  /\ assigned = TRUE
  /\ last = NoOp

SetupInit == MinresIdle /\ TuneIdle /\ ParIdle /\ DistIdle /\ SetupStart

SetupNext ==
  \/ \E o \in Owned : AssignCvg(o) /\ UNCHANGED <<mvars, tvars, pvars, dvars>>
  \/ \E o \in Owned : UpdateCvgSettings(o) /\ UNCHANGED <<mvars, tvars, pvars, dvars>>
  \/ \E o \in Owned : Set(o) /\ UNCHANGED <<mvars, tvars, pvars, dvars>>
  \/ \E f \in FieldIds : PetscSetupHook(f) /\ UNCHANGED <<mvars, tvars, pvars, dvars>>
  \/ \E f \in FieldIds : PetscAmgBlockGamgHook(f) /\ UNCHANGED <<mvars, tvars, pvars, dvars>>
  \/ \E f \in FieldIds : PetscAmgBlockBoomerHook(f) /\ UNCHANGED <<mvars, tvars, pvars, dvars>>
  \/ \E f \in FieldIds : PetscBlockHook(f) /\ UNCHANGED <<mvars, tvars, pvars, dvars>>

\* a system that is set up, its hooks and the update of its convergence
\* settings
SpecSetup == SetupInit /\ [][SetupNext]_vars

ClassInit == MinresIdle /\ TuneIdle /\ ParIdle /\ DistIdle /\ SlesStart(Builds)

ClassNext == CheckClass /\ UNCHANGED <<mvars, tvars, pvars, dvars>>

\* the capability check, over every build
SpecClass == ClassInit /\ [][ClassNext]_vars

ParInit == MinresIdle /\ TuneIdle /\ SlesIdle /\ DistIdle /\ ParStart

ParNext ==
  \/ \E p \in Ranks : ParResidual(p) /\ UNCHANGED <<mvars, tvars, svars, dvars>>
  \/ \E p \in Ranks : ParPrecond(p) /\ UNCHANGED <<mvars, tvars, svars, dvars>>
  \/ \E p \in Ranks : ParNorm(p) /\ UNCHANGED <<mvars, tvars, svars, dvars>>
  \/ \E p \in Ranks : ParDot(p) /\ UNCHANGED <<mvars, tvars, svars, dvars>>
  \/ \E p \in Ranks : ParMatvec(p) /\ UNCHANGED <<mvars, tvars, svars, dvars>>
  \/ \E p \in Ranks : ParCvgTest(p) /\ UNCHANGED <<mvars, tvars, svars, dvars>>
  \/ \E p \in Ranks : ParExit(p) /\ UNCHANGED <<mvars, tvars, svars, dvars>>

\* cs_saddle_minres run by several processes, helper call by helper call
SpecPar == ParInit /\ [][ParNext]_vars

DistInit == MinresIdle /\ TuneIdle /\ SlesIdle /\ ParIdle /\ DistIdle

DistNext ==
  \/ DistCall /\ UNCHANGED <<mvars, tvars, svars, pvars>>
  \/ \E p \in Ranks : DistTestSlot(p) /\ UNCHANGED <<mvars, tvars, svars, pvars>>
  \/ DistTestAllreduce /\ UNCHANGED <<mvars, tvars, svars, pvars>>
  \/ \E p \in Ranks : DistSelect(p) /\ UNCHANGED <<mvars, tvars, svars, pvars>>
  \/ DistSelectAllreduce /\ UNCHANGED <<mvars, tvars, svars, pvars>>
  \/ \E p \in Ranks : DistSingle(p) /\ UNCHANGED <<mvars, tvars, svars, pvars>>
  \/ DistReturn /\ UNCHANGED <<mvars, tvars, svars, pvars>>

\* the kernel tuning engine run by several processes
SpecDist == DistInit /\ [][DistNext]_vars

\* ------------------------------------------------------------------------
\* Properties of the convergence state machine (cs_saddle_minres)
\* ------------------------------------------------------------------------

\* tol = max(atol, rtol*res0) of the current solve
SolveTol == FMax(info.atol, FMul(info.rtol, info.res0))

BelowTol(k) == FLt(trace[k].res, SolveTol)

Max(a, b) == IF a >= b THEN a ELSE b

\* the solver is running or has returned
InSolve == pc \in {"loop", "done"}

\* C1: if the residual estimate first falls strictly below
\* tol = max(atol, rtol*res0) at the k-th test of a solve, k below the cap,
\* then every earlier test left the status ITERATING, the k-th test sets
\* CONVERGED (and no test sets CONVERGED without the residual being below
\* tol), it is the last test of the solve, and n_algo_iter = k on return.
C1_ConvergedExactlyAtK ==
  InSolve =>
    \A k \in 1..Len(trace) :
      /\ trace[k].cvg = CS_SLES_CONVERGED => BelowTol(k)
      /\ ( /\ BelowTol(k)
           /\ \A j \in 1..(k - 1) : ~BelowTol(j)
           /\ k < info.n_max_algo_iter )
         => /\ trace[k].cvg = CS_SLES_CONVERGED
            /\ trace[k].n = k
            /\ \A j \in 1..(k - 1) : trace[j].cvg = CS_SLES_ITERATING
            /\ Len(trace) = k
            /\ info.cvg = CS_SLES_CONVERGED
            /\ info.n_algo_iter = k

\* a solve that converged at its second iteration, below a cap of three
C1_Witness ==
  /\ pc = "done"
  /\ Len(trace) = 2
  /\ info.cvg = CS_SLES_CONVERGED
  /\ info.n_algo_iter = 2
  /\ info.n_max_algo_iter = 3
  /\ ~BelowTol(1)

\* C2: with a divergence tolerance in use (dtol >= 0), a test sets DIVERGED
\* exactly when the residual is not below tol, the cap is not reached and
\* the current residual exceeds dtol times the residual of the previous
\* iteration.
C2_DivergedIffGrowth ==
  (InSolve /\ ~FLt(info.dtol, Zero)) =>
    \A k \in 1..Len(trace) :
      trace[k].cvg = CS_SLES_DIVERGED
        <=> /\ ~BelowTol(k)
            /\ trace[k].n < info.n_max_algo_iter
            /\ FGt(trace[k].res, FMul(info.dtol, trace[k].prev_res))

\* C3 as stated: MAX_ITERATION is reported at the test where n_algo_iter
\* equals the configured cap.
C3_MaxIterationAtCap ==
  InSolve =>
    \A k \in 1..Len(trace) :
      trace[k].cvg = CS_SLES_MAX_ITERATION => trace[k].n = info.n_max_algo_iter

\* C3 amended: a test sets MAX_ITERATION exactly when the residual is not
\* below tol and n_algo_iter has reached the cap; this happens at the test
\* where n_algo_iter = max(1, cap), every earlier test left ITERATING, and
\* no iteration follows.
C3_MaxIterationAtMaxOneCap ==
  InSolve =>
    \A k \in 1..Len(trace) :
      /\ trace[k].cvg = CS_SLES_MAX_ITERATION
           <=> (~BelowTol(k) /\ trace[k].n >= info.n_max_algo_iter)
      /\ trace[k].cvg = CS_SLES_MAX_ITERATION
           => /\ trace[k].n = Max(1, info.n_max_algo_iter)
              /\ \A j \in 1..(k - 1) : trace[j].cvg = CS_SLES_ITERATING
              /\ Len(trace) = k

\* a solve that ran to a cap of three
C3_Witness ==
  /\ pc = "done"
  /\ info.cvg = CS_SLES_MAX_ITERATION
  /\ info.n_max_algo_iter = 3
  /\ info.n_algo_iter = 3
  /\ Len(trace) = 3

\* C4: a solve entered with status ITERATING runs at most
\* max(1, n_max_algo_iter) iterations; when it returns it has run at least
\* one, its status is CONVERGED, MAX_ITERATION or DIVERGED, and the run is
\* only ever stopped (a failed assertion) while the status is ITERATING.
C4_BoundedAndFinalStatus ==
  /\ (InSolve /\ entry.cvg = CS_SLES_ITERATING)
       => Len(trace) <= Max(1, info.n_max_algo_iter)
  /\ (pc = "done" /\ entry.cvg = CS_SLES_ITERATING)
       => /\ Len(trace) >= 1
          /\ info.cvg \in { CS_SLES_CONVERGED, CS_SLES_MAX_ITERATION,
                            CS_SLES_DIVERGED }
  /\ pc = "aborted" => info.cvg = CS_SLES_ITERATING

\* a solve that returned normally with status DIVERGED
C4_Witness ==
  /\ pc = "done"
  /\ entry.cvg = CS_SLES_ITERATING
  /\ info.cvg = CS_SLES_DIVERGED
  /\ Len(trace) = 1

\* C5: the solver never takes the reciprocal of a zero beta or rho1 and
\* never updates x1/x2 with a non-finite value.
C5_ZeroCoefficientIsFatal == zero_div = "none" /\ ~x_nan

\* C6: when the prologue of cs_saddle_minres is over and no iteration has
\* run yet, the status is ITERATING and the iteration counters are zero.
C6_SolveStartsReset ==
  (pc = "loop" /\ trace = << >>)
    => /\ info.cvg = CS_SLES_ITERATING
       /\ info.n_algo_iter = 0
       /\ info.n_inner_iter = 0
       /\ info.last_inner_iter = 0

\* ------------------------------------------------------------------------
\* Properties of the kernel tuning engine
\* ------------------------------------------------------------------------

Variants == 0..(n_variants - 1)

\* the tuning ran and the selection has been made
Tuned == tpc = "done" /\ n_variants > 1

\* variant i was run and timed for operation j
WasTimed(i, j) == spmv_cost[i][j] # tune_no_cost

\* location class of variant i for operation j: 1 host, 2 device
ClassOf(i, j) == IF m_variant[i].vector_multiply_xy_hd[j] = "d" THEN 2 ELSE 1

CostLeq(a, b) == ~FLt(b, a)

\* output variant k carries the name and kernel of variant i for operation j
Carries(k, i, j) ==
  /\ r_variant[k].name[j] = m_variant[i].name[j]
  /\ r_variant[k].vector_multiply[j] = m_variant[i].vector_multiply[j]

\* C7: for every operation type and each location class (host 1, device 2)
\* returned, if a variant of the class was timed for the operation, the
\* returned variant of the class carries the name and kernel of a timed
\* variant of the class whose cost is at most that of every timed variant
\* of the class; a skipped variant is never selected.
C7_ClassMinimumSelected ==
  Tuned =>
    \A j \in OpTypes, k \in {1, 2} :
      /\ (k < n_r_variants /\ \E i \in Variants : WasTimed(i, j) /\ ClassOf(i, j) = k)
           => \E w \in Variants :
                /\ WasTimed(w, j) /\ ClassOf(w, j) = k
                /\ Carries(k, w, j)
                /\ \A i \in Variants :
                     (WasTimed(i, j) /\ ClassOf(i, j) = k)
                       => CostLeq(spmv_cost[w][j], spmv_cost[i][j])
      /\ \A kk \in 0..2 : min_c[kk][j] > -1 => WasTimed(min_c[kk][j], j)

\* C8: if every registered variant reports the same cost for an operation
\* type, the variant selected for it (the combined slot of the result) is
\* the first registered one.
C8_TieSelectsFirstRegistered ==
  Tuned =>
    \A j \in OpTypes :
      ( \A i \in Variants :
          WasTimed(i, j) /\ spmv_cost[i][j] = spmv_cost[0][j] )
        => Carries(0, 0, j)

\* the combined slot as C9 states it: the cheaper of the two optima, the
\* first in scan order when their costs are equal
C9_StatedChoice(h, d, j) ==
  IF h > -1 /\ d > -1
  THEN IF FLt(spmv_cost[d][j], spmv_cost[h][j]) THEN d
       ELSE IF FLt(spmv_cost[h][j], spmv_cost[d][j]) THEN h
       ELSE IF d < h THEN d ELSE h
  ELSE IF h > -1 THEN h ELSE d

C10_SingleVariantShortcut ==
  (tpc = "done" /\ n_variants < 2) =>
    /\ n_kernel_runs = 0
    /\ \A i \in Variants, j \in OpTypes : spmv_cost[i][j] = UnsetCost
    /\ min_c = NoMinC
    /\ r_variant[0] = m_variant[0]

\* a one-variant list tuned on a platform with a device
C10_Witness ==
  /\ tpc = "done"
  /\ n_variants = 1
  /\ n_r_variants = 3
  /\ r_variant[0] = m_variant[0]

\* ------------------------------------------------------------------------
\* Frame of cs_matrix_variant_tuned
\* ------------------------------------------------------------------------

\* the adaptor the caller's matrix refers to still exists
AdaptorIntact(mat) == mat.adaptor = nullptr \/ mat.adaptor \notin released

\* C11: cs_matrix_variant_tuned does not mutate the caller's matrix: at
\* every point of the call and at its return, the fill type, allocation mode,
\* every slot of the kernel tables and the adaptor state of the caller's
\* matrix are those it had when the call started.
C11_CallerMatrixUntouched ==
  tpc \in {"built", "done"} =>
    /\ m = m_entry
    /\ AdaptorIntact(m)

\* ------------------------------------------------------------------------
\* Creation and copy of the solver parameters
\* ------------------------------------------------------------------------

\* C12: cs_param_sles_create(field_id, name) returns an object with the
\* documented defaults: native family, GCR with a restart of 15, diagonal
\* preconditioner, no AMG type, no block preconditioner, not flexible,
\* max_iter 10000, atol 1e-15, rtol 1e-6, dtol 1e3, setup_done false and
\* no sub-parameter block.
C12_CreateDefaults ==
  last.op = "create" =>
    LET p == slesp[last.obj]
    IN  /\ p.name = last.obj
        /\ p.field_id = last.field_id
        /\ p.solver_class = "CS_PARAM_SLES_CLASS_CS"
        /\ p.solver = "CS_PARAM_ITSOL_GCR"
        /\ p.restart = 15
        /\ p.precond = "CS_PARAM_PRECOND_DIAG"
        /\ p.amg_type = "CS_PARAM_AMG_NONE"
        /\ p.pcd_block_type = "CS_PARAM_PRECOND_BLOCK_NONE"
        /\ p.flexible = FALSE
        /\ p.cvg_param.n_max_iter = 10000
        /\ p.cvg_param.atol = Dec(1, -15)
        /\ p.cvg_param.rtol = Dec(1, -6)
        /\ p.cvg_param.dtol = Dec(1, 3)
        /\ p.setup_done = FALSE
        /\ p.context_param = NULL

\* an object has just been created while the other one is already set up
C12_Witness ==
  /\ last.op = "create"
  /\ last.obj = "b"
  /\ slesp["b"] # NoParams
  /\ sles[0] # NoSles

\* the scalar members of two parameter objects are the same
SameScalars(d, s) ==
  /\ d.field_id = s.field_id
  /\ d.verbosity = s.verbosity
  /\ d.setup_done = s.setup_done
  /\ d.solver_class = s.solver_class
  /\ d.solver = s.solver
  /\ d.precond = s.precond
  /\ d.flexible = s.flexible
  /\ d.restart = s.restart
  /\ d.amg_type = s.amg_type
  /\ d.pcd_block_type = s.pcd_block_type
  /\ d.resnorm_type = s.resnorm_type
  /\ d.cvg_param = s.cvg_param

\* C13: after cs_param_sles_copy_from(src, dst), every scalar member of dst
\* equals that of src: field id, verbosity, setup_done, family, solver,
\* preconditioner, flexibility flag, restart length, AMG type, block
\* preconditioner type, residual normalization and the four convergence
\* settings.
C13_CopyScalars ==
  (last.op = "copy_from" /\ fatal = "none") =>
    SameScalars(slesp[last.obj], slesp[last.src])

\* C14: cs_param_sles_copy_from copies the sub-parameter block deeply and
\* only when implied: when dst's solver or preconditioner is MUMPS, or
\* BoomerAMG options are needed for dst's solver, preconditioner and AMG
\* type, dst owns a separate block equal in value to that of src;
\* otherwise dst holds no block, and the block it held before the call has
\* been released.
C14_CopyBlock ==
  (last.op = "copy_from" /\ fatal = "none") =>
    LET d == slesp[last.obj]
        s == slesp[last.src]
    IN  IF copy_kind(d) # "none"
        THEN s.context_param # NULL =>
               /\ d.context_param # NULL
               /\ d.context_param # s.context_param
               /\ heap[d.context_param] = heap[s.context_param]
        ELSE /\ d.context_param = NULL
             /\ last.pre.context_param # NULL =>
                  heap[last.pre.context_param] = FreeBlock

\* the types of block the solver and the preconditioner of an object imply
ImpliedTypes(p) ==
  { "none" }
    \cup ( IF p.solver = "CS_PARAM_ITSOL_MUMPS" \/ p.precond = "CS_PARAM_PRECOND_MUMPS"
           THEN { "mumps" } ELSE {} )
    \cup ( IF p.solver = "CS_PARAM_ITSOL_AMG" \/ p.precond = "CS_PARAM_PRECOND_AMG"
           THEN { "boomer" } ELSE {} )

\* C15: after any sequence of cs_param_sles_create, cs_param_sles_boomeramg,
\* cs_param_sles_boomeramg_advanced, cs_param_sles_boomeramg_reset,
\* cs_param_sles_mumps, cs_param_sles_mumps_advanced,
\* cs_param_sles_copy_from and cs_param_sles_set, the sub-parameter block of
\* an object is absent or of the type its solver or preconditioner implies,
\* and a block of one type is never written through the setter of the other.
C15_SubParamType ==
  (~assigned /\ fatal = "none") =>
    /\ \A o \in Objects :
         slesp[o] # NoParams =>
           BlockType(heap, slesp[o].context_param) \in ImpliedTypes(slesp[o])
    /\ last.op = "boomeramg_advanced" => last.written = "boomer"
    /\ last.op = "mumps_advanced" => last.written = "mumps"

\* ------------------------------------------------------------------------
\* Set-up of a system from its parameters
\* ------------------------------------------------------------------------

\* the bft_error of the restart check
RestartError == "_check_settings: the restart interval is not big enough"

\* C16: cs_param_sles_set rejects a too small restart length: when the
\* solver is GMRES, FGMRES or GCR and restart < 2, a fatal error is raised
\* before any backend (native, MUMPS, HYPRE, PETSc) is configured; with
\* restart >= 2, or with any other solver, this check never raises.
C16_RestartCheck ==
  last.op = "set" =>
    IF /\ last.pre.solver \in { "CS_PARAM_ITSOL_GMRES", "CS_PARAM_ITSOL_FGMRES",
                                "CS_PARAM_ITSOL_GCR" }
       /\ last.pre.restart < 2
    THEN /\ fatal # "none"
         /\ last.dispatch = "none"
         /\ sles[last.pre.field_id] = last.pre_sles
         /\ slesp[last.obj].context_param = last.pre.context_param
    ELSE fatal # RestartError

\* a GMRES, FGMRES or GCR solver with a restart of 1 has been refused by
\* the restart check
C16_Witness ==
  /\ last.op = "set"
  /\ last.pre.restart = 1
  /\ fatal = RestartError
  /\ sles[last.pre.field_id] = NoSles

\* the set-up function the family tag names in the build
NamedBackend(class, bld) ==
  CASE class = "CS_PARAM_SLES_CLASS_CS" -> { "_set_saturne_sles" }
    [] class = "CS_PARAM_SLES_CLASS_MUMPS" -> { "_set_mumps_sles" }
    [] class = "CS_PARAM_SLES_CLASS_PETSC" -> { "_set_petsc_hypre_sles" }
    [] class = "CS_PARAM_SLES_CLASS_HYPRE" ->
         IF bld["HAVE_HYPRE"] THEN { "_set_hypre_sles" }
         ELSE { "_set_petsc_hypre_sles" }
    [] OTHER -> {}

\* the pairing of the solver and the family cs_param_sles_set checks
PairingChecked ==
  LET p == last.pre
      q == slesp[last.obj]
      c == cs_param_sles_check_class("CS_PARAM_SLES_CLASS_MUMPS", build).ret
  IN  /\ p.solver = "CS_PARAM_ITSOL_MUMPS" =>
           IF c = "CS_PARAM_SLES_N_CLASSES"
           THEN fatal # "none" /\ last.dispatch = "none"
           ELSE q.solver_class = c
      /\ (p.solver # "CS_PARAM_ITSOL_MUMPS"
            /\ p.solver_class = "CS_PARAM_SLES_CLASS_MUMPS") =>
           fatal # "none" /\ last.dispatch = "none"

ClassOthers ==
  /\ last.wanted = "CS_PARAM_SLES_CLASS_CS" => last.ret = "CS_PARAM_SLES_CLASS_CS"
  /\ last.wanted = "CS_PARAM_SLES_CLASS_PETSC" =>
       last.ret = IF build["HAVE_PETSC"] THEN "CS_PARAM_SLES_CLASS_PETSC"
                  ELSE "CS_PARAM_SLES_N_CLASSES"
  /\ last.wanted = "CS_PARAM_SLES_CLASS_MUMPS" =>
       last.ret = IF build["HAVE_MUMPS"] THEN "CS_PARAM_SLES_CLASS_MUMPS"
                  ELSE IF build["HAVE_PETSC"] /\ build["PETSC_HAVE_MUMPS"]
                  THEN "CS_PARAM_SLES_CLASS_PETSC"
                  ELSE "CS_PARAM_SLES_N_CLASSES"
  /\ last.wanted = "CS_PARAM_SLES_N_CLASSES" => last.ret = "CS_PARAM_SLES_N_CLASSES"

\* C18 as stated: over every build, cs_param_sles_check_class(wanted)
\* returns wanted when that family is available, a substitute only when
\* HYPRE or MUMPS is reachable through PETSc, the sentinel
\* CS_PARAM_SLES_N_CLASSES otherwise, and the native family unchanged.
C18_ClassOrSentinel ==
  last.op = "check_class" =>
    /\ ClassOthers
    /\ last.wanted = "CS_PARAM_SLES_CLASS_HYPRE" =>
         IF build["HAVE_HYPRE"] THEN last.ret = "CS_PARAM_SLES_CLASS_HYPRE"
         ELSE IF build["HAVE_PETSC"] /\ build["PETSC_HAVE_HYPRE"]
         THEN last.ret \in { "CS_PARAM_SLES_CLASS_HYPRE", "CS_PARAM_SLES_CLASS_PETSC" }
         ELSE last.ret = "CS_PARAM_SLES_N_CLASSES"

\* C18 amended: as stated, except that HYPRE wanted in a build without
\* HYPRE and with PETSc returns HYPRE when HYPRE is reachable through PETSc
\* and PETSc, with a warning, when it is not; the sentinel is returned for
\* HYPRE only in a build with neither HYPRE nor PETSc.
C18_ClassOrPetsc ==
  last.op = "check_class" =>
    /\ ClassOthers
    /\ last.wanted = "CS_PARAM_SLES_CLASS_HYPRE" =>
         IF build["HAVE_HYPRE"] THEN last.ret = "CS_PARAM_SLES_CLASS_HYPRE"
         ELSE IF build["HAVE_PETSC"] /\ build["PETSC_HAVE_HYPRE"]
         THEN last.ret = "CS_PARAM_SLES_CLASS_HYPRE" /\ ~last.warned
         ELSE IF build["HAVE_PETSC"]
         THEN last.ret = "CS_PARAM_SLES_CLASS_PETSC" /\ last.warned
         ELSE last.ret = "CS_PARAM_SLES_N_CLASSES"

\* HYPRE was asked for in a build with PETSc and without HYPRE in any form
C18_Witness ==
  /\ last.op = "check_class"
  /\ last.wanted = "CS_PARAM_SLES_CLASS_HYPRE"
  /\ build["HAVE_PETSC"] /\ ~build["HAVE_HYPRE"] /\ ~build["PETSC_HAVE_HYPRE"]
  /\ last.ret = "CS_PARAM_SLES_CLASS_PETSC"

\* the preconditioner of the PETSc instance the last hook call has set up
HookPc == sles[last.pre.field_id].pc

\* what the claim says of an SSOR or ICC0 preconditioner handed to
\* _petsc_set_pc_type
ParallelFallback ==
  IF cs_glob_n_ranks > 1
  THEN /\ fatal = "none"
       /\ last.warned
       /\ HookPc = IF last.pre.precond = "CS_PARAM_PRECOND_SSOR"
                   THEN "bjacobi/sor" ELSE "bjacobi/icc"
  ELSE /\ fatal = "none"
       /\ ~last.warned
       /\ HookPc = IF last.pre.precond = "CS_PARAM_PRECOND_SSOR"
                   THEN "PCSOR" ELSE "PCICC"

\* C19 as stated: in the PETSc set-up, an SSOR or ICC0 preconditioner asked
\* for in a run of more than one process raises no fatal error, the
\* block-Jacobi variant is configured and a warning is logged; in a run of
\* one process the preconditioner is configured as it is, with no warning.
C19_ParallelFallbackAlways ==
  ( /\ last.op = "petsc_setup_hook"
    /\ last.pc_run
    /\ last.pre.precond \in { "CS_PARAM_PRECOND_SSOR", "CS_PARAM_PRECOND_ICC0" } )
    => ParallelFallback

\* C19 amended: as stated when the solver is not the direct solver MUMPS;
\* with MUMPS as solver the preconditioner asked for is left aside, no
\* block-Jacobi variant is configured and no warning is logged.
C19_ParallelFallbackIterative ==
  ( /\ last.op = "petsc_setup_hook"
    /\ last.pc_run
    /\ last.pre.precond \in { "CS_PARAM_PRECOND_SSOR", "CS_PARAM_PRECOND_ICC0" } )
    => IF last.pre.solver # "CS_PARAM_ITSOL_MUMPS"
       THEN ParallelFallback
       ELSE /\ fatal = "none"
            /\ ~last.warned
            /\ HookPc = "PCLU/MATSOLVERMUMPS"
            /\ slesp[last.obj].precond = last.pre.precond

\* SSOR has been replaced by its block-Jacobi variant in a run of two
\* processes
C19_Witness ==
  /\ last.op = "petsc_setup_hook"
  /\ last.pc_run
  /\ cs_glob_n_ranks = 2
  /\ last.pre.precond = "CS_PARAM_PRECOND_SSOR"
  /\ last.pre.solver # "CS_PARAM_ITSOL_MUMPS"
  /\ last.warned
  /\ HookPc = "bjacobi/sor"

\* a BoomerAMG preconditioner is asked for with the PETSc family in a build
\* where HYPRE is not reached through PETSc
BoomerUnavailable(p) ==
  /\ p.solver_class = "CS_PARAM_SLES_CLASS_PETSC"
  /\ p.precond = "CS_PARAM_PRECOND_AMG"
  /\ p.amg_type \in { "CS_PARAM_AMG_HYPRE_BOOMER_V", "CS_PARAM_AMG_HYPRE_BOOMER_W" }
  /\ build["HAVE_PETSC"]
  /\ ~build["PETSC_HAVE_HYPRE"]

\* the fallback of a block-preconditioned system in _set_petsc_hypre_sles
BlockFallback ==
  ( /\ last.op = "set"
    /\ last.dispatch = "_set_petsc_hypre_sles"
    /\ BoomerUnavailable(slesp[last.obj])
    /\ last.pre.pcd_block_type # "CS_PARAM_PRECOND_BLOCK_NONE" )
    => /\ fatal = "none"
       /\ last.backend_warned
       /\ sles[last.pre.field_id].hook = "_petsc_amg_block_gamg_hook"

\* C20 as stated: a BoomerAMG (V or W) preconditioner asked for with the
\* PETSc family when HYPRE is not reached through PETSc raises no fatal
\* error; GAMG is configured instead and a warning is logged, for a plain
\* system (_petsc_set_pc_type) and for a block-preconditioned one
\* (_set_petsc_hypre_sles).
C20_BoomerFallbackAlways ==
  /\ BlockFallback
  /\ ( /\ last.op = "petsc_setup_hook"
       /\ last.pc_run
       /\ BoomerUnavailable(last.pre) )
       => /\ fatal = "none"
          /\ last.warned
          /\ HookPc = "PCGAMG"

\* C20 amended: as stated for a block-preconditioned system, and for a
\* plain system when the solver is not the direct solver MUMPS; with MUMPS
\* as solver of a plain system GAMG is not configured and no warning is
\* logged.
C20_BoomerFallbackIterative ==
  /\ BlockFallback
  /\ ( /\ last.op = "petsc_setup_hook"
       /\ last.pc_run
       /\ BoomerUnavailable(last.pre) )
       => IF last.pre.solver # "CS_PARAM_ITSOL_MUMPS"
          THEN /\ fatal = "none"
               /\ last.warned
               /\ HookPc = "PCGAMG"
          ELSE /\ fatal = "none"
               /\ ~last.warned
               /\ HookPc = "PCLU/MATSOLVERMUMPS"

\* GAMG has been configured in place of BoomerAMG for a plain system
C20_Witness ==
  /\ last.op = "petsc_setup_hook"
  /\ last.pc_run
  /\ BoomerUnavailable(last.pre)
  /\ last.pre.solver = "CS_PARAM_ITSOL_CG"
  /\ last.warned
  /\ HookPc = "PCGAMG"

\* C21: cs_param_sles_update_cvg_settings hands only convergence settings
\* (maximum of iterations, tolerances, restart) to the instance already
\* configured for the system: nothing else of the instance changes (solver,
\* preconditioner, hook, context), no instance is created where there was
\* none, the parameter object is left as it was and no error is raised.
C21_UpdateFrame ==
  last.op = "update_cvg_settings" =>
    LET f == last.pre.field_id
        c == update_cvg_fields(last.pre, build)
    IN  /\ slesp[last.obj] = last.pre
        /\ last.pre_sles = NoSles => sles[f] = NoSles
        /\ (last.pre_sles # NoSles
              /\ (last.typed \/ update_context_type(last.pre, build) = "none")) =>
             /\ sles[f] # NoSles
             /\ [ sles[f] EXCEPT !.cvg = last.pre_sles.cvg ] = last.pre_sles
             /\ \A k \in DOMAIN sles[f].cvg :
                  \/ k \in DOMAIN c
                  \/ k \in DOMAIN last.pre_sles.cvg
                       /\ sles[f].cvg[k] = last.pre_sles.cvg[k]
             /\ fatal = "none"

\* an update changed the convergence settings of an instance that is set up
C21_Witness ==
  /\ last.op = "update_cvg_settings"
  /\ last.typed
  /\ last.pre.setup_done
  /\ sles[last.pre.field_id].cvg # last.pre_sles.cvg
  /\ sles[last.pre.field_id].cvg.n_max_iter = last.pre.cvg_param.n_max_iter

\* the operations that are PETSc set-up hooks
HookOps ==
  { "petsc_setup_hook", "petsc_block_hook", "petsc_amg_block_gamg_hook",
    "petsc_amg_block_boomer_hook" }

\* the calls of a hook that are built-in settings or applications of options
BuiltInSteps ==
  { "KSPSetOptionsPrefix", "KSPSetNormType", "KSPSetType", "KSPGMRESSetRestart",
    "KSPGCRSetRestart", "KSPSetTolerances", "PCSetType", "PCFactorSetMatSolverType",
    "PCFieldSplitSetType", "PCFieldSplitSetBlockSize", "PCFieldSplitSetFields",
    "_petsc_cmd", "_petsc_pcgamg_hook", "_petsc_pchypre_hook",
    "PCSetFromOptions", "KSPSetFromOptions" }

\* C22: in every PETSc set-up hook the solver settings, the predefined
\* preconditioner settings and the application of options come before the
\* call of cs_user_sles_petsc_hook: the user hook is last, no built-in
\* setting and no PCSetFromOptions or KSPSetFromOptions follows it.
C22_UserHookLast ==
  last.op \in HookOps =>
    \A i \in DOMAIN last.steps, j \in DOMAIN last.steps :
      (last.steps[i] = "cs_user_sles_petsc_hook" /\ j > i) =>
        last.steps[j] \notin BuiltInSteps

\* C23: setup_done prevents a redundant configuration of the backend. Over
\* any sequence of calls of the set-up hook and of operations on the
\* parameter objects, cs_param_sles_copy_from into the object included, once
\* setup_done is true it does not become false again, and a hook performs
\* KSPSetUp and the log of the set-up only when setup_done was false.
C23_SetupDoneOnce ==
  [][ /\ \A o \in Objects :
           (slesp[o] # NoParams /\ slesp[o].setup_done) =>
             (slesp'[o] # NoParams /\ slesp'[o].setup_done)
      /\ (last'.op = "petsc_setup_hook" /\ last'.pre.setup_done) =>
           \A i \in DOMAIN last'.steps : last'.steps[i] # "KSPSetUp" ]_vars

\* C24: every fatal configuration error is raised during cs_param_sles_set,
\* before any solve: no bft_error is raised for the first time inside a
\* set-up hook of a system that cs_param_sles_set accepted.
C24_NoFatalInHook == last.op \in HookOps => fatal = "none"

\* C27: the divergence tolerance is not used when it is negative: with
\* dtol < 0 no convergence test of a solve reports DIVERGED.
C27_NegativeDtolUnused ==
  FLt(info.dtol, Zero) =>
    \A k \in DOMAIN trace : trace[k].cvg # CS_SLES_DIVERGED

\* C28: after every convergence test of a solve the tol field of the
\* cs_iter_algo_info_t holds max(atol, rtol*res0) for the res0 of that solve,
\* the tolerance the residual was compared with.
C28_TolIsComputed ==
  (pc \in { "loop", "done" } /\ trace # << >>) => info.tol = cvg_epsilon(info)

\* C30: in cs_saddle_minres the residual is only multiplied by |s| <= 1
\* between two convergence tests, so no test sees a residual above the one
\* before it; and for dtol >= 1 no test reports DIVERGED: a solve that
\* iterated and returned ended in CONVERGED or MAX_ITERATION.
C30_NoGrowthNoDivergence ==
  /\ \A k \in DOMAIN trace : ~FGt(trace[k].res, trace[k].prev_res)
  /\ ~FLt(info.dtol, One) =>
       /\ \A k \in DOMAIN trace : trace[k].cvg # CS_SLES_DIVERGED
       /\ (pc = "done" /\ trace # << >>) =>
            info.cvg \in { CS_SLES_CONVERGED, CS_SLES_MAX_ITERATION }

\* a solve with dtol >= 1 returned after two tests, the residual having
\* decreased at the second one
C30_Witness ==
  /\ pc = "done"
  /\ ~FLt(info.dtol, One)
  /\ Len(trace) >= 2
  /\ FLt(trace[2].res, trace[2].prev_res)
  /\ FGt(trace[2].res, Zero)

\* the smaller of two numbers
Smaller(a, b) == IF a < b THEN a ELSE b

\* C25: in cs_saddle_minres run on several processes every process makes
\* the same number of collective reductions before the loop and in each
\* iteration, and the processes leave the loop at the same iteration: no
\* process returns early from a helper and skips a reduction another makes.
C25_SameReductions ==
  \A p \in Ranks, q \in Ranks :
    /\ \A k \in 1..Smaller(Len(rank[p].done), Len(rank[q].done)) :
         rank[p].done[k] = rank[q].done[k]
    /\ (rank[p].pos = "returned" /\ rank[q].pos = "returned") =>
         rank[p].n_algo_iter = rank[q].n_algo_iter

\* C29: every helper that moves a vector to the gather view moves it back
\* to the scatter view before it returns, with or without a range set:
\* between two helper calls of cs_saddle_minres every vector is in the
\* scatter view, none was gathered twice or scattered twice.
C29_ScatterBetweenHelpers ==
  \A p \in Ranks : \A x \in Vecs : rank[p].layout[x] = "scatter"

\* a process with a range set and both solvers of the preconditioner has
\* returned after iterations in which it made reductions
C29_Witness ==
  \E p \in Ranks :
    /\ ssys.rset = "set"
    /\ sbp.m11_slesp
    /\ rank[p].pos = "returned"
    /\ Len(rank[p].done) >= 2
    /\ rank[p].done[2] = 4

\* ------------------------------------------------------------------------
\* Kernel tuning by several processes
\* ------------------------------------------------------------------------

\* a is the beginning of b
IsPrefix(a, b) ==
  /\ Len(a) <= Len(b)
  /\ \A k \in 1..Len(a) : a[k] = b[k]

\* every process is between two slots of _matrix_tune_test, the same one,
\* the last slot they timed being the same too
AfterSameSlot ==
  \A p \in DistRanks, q \in DistRanks :
    /\ dproc[p].pos = "test"
    /\ dproc[p].slot = dproc[q].slot
    /\ dproc[p].timed = dproc[q].timed
    /\ dproc[p].timed[1] >= 0

\* the largest of the per-call costs the processes measured for the slot
\* they timed last
LargestPerCallCost ==
  CHOOSE c \in { dist_wtu(dproc[q].wt_r0, tune_n_runs(dcall.n_measure)) :
                 q \in DistRanks } :
    \A q \in DistRanks :
      ~FGt(dist_wtu(dproc[q].wt_r0, tune_n_runs(dcall.n_measure)), c)

\* C26: when cs_matrix_variant_tuned is run by several processes, the cost
\* stored for a slot is the largest over the processes of the per-call cost
\* each one measured, the processes call the same collective reductions in
\* the same order, they end with the same costs and every process returns
\* the same selection for every slot.
C26_DistributedSelection ==
  (dcall.active /\ dist_reduces(dcall)) =>
    /\ \A p \in DistRanks, q \in DistRanks :
         IsPrefix(dproc[p].reds, dproc[q].reds)
           \/ IsPrefix(dproc[q].reds, dproc[p].reds)
    /\ AfterSameSlot =>
         \A p \in DistRanks :
           dproc[p].spmv_cost[dproc[p].timed[1]][dproc[p].timed[2]]
             = LargestPerCallCost
    /\ \A p \in DistRanks, q \in DistRanks :
         (dproc[p].pos = "done" /\ dproc[q].pos = "done") =>
           /\ dproc[p].reds = dproc[q].reds
           /\ dproc[p].spmv_cost = dproc[q].spmv_cost
           /\ dproc[p].min_c = dproc[q].min_c
           /\ dproc[p].r_variant = dproc[q].r_variant

\* several processes have returned a selection for y = A.x, and for the
\* slot they timed last the first one measured less than another one
C26_Witness ==
  /\ dcall.active
  /\ dist_reduces(dcall)
  /\ tune_needed(dcall.n_variants)
  /\ \A p \in DistRanks : dproc[p].pos = "done"
  /\ dproc[1].min_c[0][0] > 0
  /\ \E q \in DistRanks : FLt(dproc[1].wt_r0, dproc[q].wt_r0)

====
